---------------------------- MODULE Spec2Model ----------------------------
(***************************************************************************)
(* Model of vectoria: an embedded LSH vector index on a byte-keyed KV      *)
(* store (internal/lsh, internal/simhash, internal/semantic,               *)
(* internal/storage) and its database facade (vectoria.go).                *)
(*                                                                         *)
(* Strings and []byte values are sequences of byte codes, so that key      *)
(* concatenation, prefix scans and binary encodings are computed as the    *)
(* code computes them.  float64 values are modelled by the integers of     *)
(* small magnitude (every such integer is exactly representable); their    *)
(* IEEE-754 little-endian encoding is computed byte by byte.  Dot          *)
(* products of such values are exact; norms are carried as their squares   *)
(* and similarities are compared by exact cross-multiplication.            *)
(***************************************************************************)
EXTENDS Integers, Sequences, FiniteSets, TLC

VARIABLES
    kv,        \* Storage: the badger key space, [key bytes -> value bytes]
    handles,   \* the *LSH objects returned by lsh.New (immutable records)
    added,     \* history: <<index name, id>> -> the Adds committed, in order
    created,   \* history: index name -> the *LSH whose config New stored
    last,      \* the call made by the last step with its result, or NoOp
    items,     \* DB.indexRef.items: index name -> *LSH (facade registry)
    dbOpen,    \* TRUE once vectoria.New has returned a DB
    calls,     \* per goroutine: the facade Add or Get call it is executing
    mu         \* DB.indexRef.mu: the RWMutex of the registry

vars == <<kv, handles, added, created, last, items, dbOpen, calls, mu>>

----------------------------------------------------------------------------
(* Byte strings                                                            *)

S_index == <<105, 110, 100, 101, 120>>                       \* "index"
S_embedding == <<101, 109, 98, 101, 100, 100, 105, 110, 103>> \* "embedding"
S_sketch == <<115, 107, 101, 116, 99, 104>>                  \* "sketch"
S_num_rounds == <<110, 117, 109, 95, 114, 111, 117, 110, 100, 115>>
S_num_hyperplanes ==
    <<110, 117, 109, 95, 104, 121, 112, 101, 114, 112, 108, 97, 110, 101, 115>>
S_space_dim == <<115, 112, 97, 99, 101, 95, 100, 105, 109>>
S_hash == <<104, 97, 115, 104>>
S_hyperplanes == <<104, 121, 112, 101, 114, 112, 108, 97, 110, 101, 115>>
S_slash == <<47>>                                            \* "/"

\* simhash.POSITIVE_SIDE = "1", simhash.NEGATIVE_SIDE = "0"
POSITIVE_SIDE == <<49>>
NEGATIVE_SIDE == <<48>>

\* bytes.HasPrefix / badger's ValidForPrefix
HasPrefix(s, p) == Len(p) <= Len(s) /\ SubSeq(s, 1, Len(p)) = p

\* strings.Join(elems, sep)
RECURSIVE Join(_, _)
Join(elems, sep) ==
    IF elems = <<>> THEN <<>>
    ELSE IF Len(elems) = 1 THEN elems[1]
    ELSE elems[1] \o sep \o Join(Tail(elems), sep)

\* strconv.Itoa for a natural number
RECURSIVE Itoa(_)
Itoa(n) == IF n < 10 THEN <<48 + n>> ELSE Itoa(n \div 10) \o <<48 + (n % 10)>>

----------------------------------------------------------------------------
(* Key layout (package lsh, key helpers)                                   *)

key(elems) == Join(elems, S_slash)

getIndexKey(indexName) == key(<<S_index, indexName>>)

getEmbeddingKey(indexName, id) ==
    key(<<getIndexKey(indexName), S_embedding, id>>)

getSketchPrefixKey(indexName, sketch) ==
    key(<<getIndexKey(indexName), S_sketch, sketch>>)

\* Faulty variant of getSketchKey: the sketch is left out of the key.
getSketchKeyNoSketch(indexName, sketch, id) ==
    key(<<getIndexKey(indexName), S_sketch, id>>)

getSketchKey(indexName, sketch, id) ==
    key(<<getSketchPrefixKey(indexName, sketch), id>>)

getNumRoundsKey(indexName) == key(<<getIndexKey(indexName), S_num_rounds>>)

getNumHyperPlanesKey(indexName) ==
    key(<<getIndexKey(indexName), S_num_hyperplanes>>)

getSpaceDimKey(indexName) == key(<<getIndexKey(indexName), S_space_dim>>)

getHyperPlanesKey(indexName, hashIdx) ==
    key(<<getIndexKey(indexName), S_hash, Itoa(hashIdx), S_hyperplanes>>)

----------------------------------------------------------------------------
(* Binary encodings (package lsh)                                          *)

\* Results of fallible functions: err = "" is Go's nil error.
Ok(v) == [err |-> "", val |-> v]
Fail(e) == [err |-> e, val |-> <<>>]

Pow2(n) == 2 ^ n

\* encodeUInt32: binary.LittleEndian.PutUint32
encodeUInt32(val) ==
    << val % 256, (val \div 256) % 256,
       (val \div 65536) % 256, (val \div 16777216) % 256 >>

\* binary.LittleEndian.Uint32 (reads the first four bytes)
Uint32(b) == b[1] + 256 * b[2] + 65536 * b[3] + 16777216 * b[4]

\* floor(log2(m)) for m >= 1
RECURSIVE Log2(_)
Log2(m) == IF m < 2 THEN 0 ELSE 1 + Log2(m \div 2)

\* binary.Write(buf, binary.LittleEndian, val) for a float64 holding the
\* integer val, |val| < 32: sign bit, 11-bit biased exponent, 52-bit
\* fraction whose only non-zero bits are its top four.
Float64Bytes(val) ==
    IF val = 0 THEN <<0, 0, 0, 0, 0, 0, 0, 0>>
    ELSE LET m == IF val < 0 THEN -val ELSE val
             e == Log2(m)
             biased == 1023 + e
             frac4 == ((m - Pow2(e)) * 16) \div Pow2(e)
             sign == IF val < 0 THEN 128 ELSE 0
         IN  <<0, 0, 0, 0, 0, 0,
               (biased % 16) * 16 + frac4,
               sign + (biased \div 16)>>

\* binary.Read(buf, binary.LittleEndian, &val) of eight bytes written above
Float64Value(b) ==
    IF b = <<0, 0, 0, 0, 0, 0, 0, 0>> THEN 0
    ELSE LET negative == b[8] >= 128
             biased == (b[8] % 128) * 16 + (b[7] \div 16)
             frac4 == b[7] % 16
             e == biased - 1023
             m == ((16 + frac4) * Pow2(e)) \div 16
         IN  IF negative THEN -m ELSE m

\* encodeFloat64Slice
RECURSIVE encodeFloat64Slice(_)
encodeFloat64Slice(slice) ==
    IF slice = <<>> THEN <<>>
    ELSE Float64Bytes(Head(slice)) \o encodeFloat64Slice(Tail(slice))

\* encodeFloat64Slice2D: rows one after the other
RECURSIVE encodeFloat64Slice2D(_)
encodeFloat64Slice2D(slice) ==
    IF slice = <<>> THEN <<>>
    ELSE encodeFloat64Slice(Head(slice)) \o encodeFloat64Slice2D(Tail(slice))

\* decodeFloat64Slice: reads eight bytes at a time while any byte is left;
\* a short tail makes binary.Read fail.
RECURSIVE decodeFloat64Slice(_)
decodeFloat64Slice(data) ==
    IF Len(data) = 0 THEN Ok(<<>>)
    ELSE IF Len(data) < 8 THEN Fail("UnexpectedEOF")
    ELSE LET rest == decodeFloat64Slice(SubSeq(data, 9, Len(data)))
         IN  IF rest.err # "" THEN rest
             ELSE Ok(<<Float64Value(SubSeq(data, 1, 8))>> \o rest.val)

\* decodeFloat64Slice2D: while bytes are left, reads a row of numCols values
RECURSIVE decodeFloat64Slice2D(_, _)
decodeFloat64Slice2D(data, numCols) ==
    IF Len(data) = 0 THEN Ok(<<>>)
    ELSE IF Len(data) < 8 * numCols THEN
        Fail(IF Len(data) % 8 = 0 THEN "EOF" ELSE "UnexpectedEOF")
    ELSE LET row == decodeFloat64Slice(SubSeq(data, 1, 8 * numCols))
             rest == decodeFloat64Slice2D(
                         SubSeq(data, 8 * numCols + 1, Len(data)), numCols)
         IN  IF rest.err # "" THEN rest ELSE Ok(<<row.val>> \o rest.val)


----------------------------------------------------------------------------
(* Bounds and input domains                                                *)

\* Thresholds are the rationals n / ThresholdDen.
ThresholdDen == 1
\* Largest k passed to Get / Search.
MaxK == 2

Thresholds == (0 - 1) .. (ThresholdDen + 1)
ValidThresholds == 0 .. ThresholdDen
Ks == 0 .. MaxK

----------------------------------------------------------------------------
(* SimHash (package simhash)                                               *)

RECURSIVE SumProducts(_, _)
SumProducts(vecA, vecB) ==
    IF vecA = <<>> THEN 0
    ELSE Head(vecA) * Head(vecB) + SumProducts(Tail(vecA), Tail(vecB))

\* dotProduct (the same function in simhash and in semantic)
dotProduct(vecA, vecB) ==
    IF Len(vecA) # Len(vecB) THEN Fail("vectorsNotSameLen")
    ELSE Ok(SumProducts(vecA, vecB))

\* Faulty variant of hash: a dot product of 0 is put on the negative side.
hashStrict(projectionVector, embedding) ==
    LET res == dotProduct(projectionVector, embedding)
    IN  IF res.err # "" THEN res
        ELSE IF res.val > 0 THEN Ok(POSITIVE_SIDE) ELSE Ok(NEGATIVE_SIDE)

\* hash: the side of the hyperplane the embedding lies on
hash(projectionVector, embedding) ==
    LET res == dotProduct(projectionVector, embedding)
    IN  IF res.err # "" THEN res
        ELSE IF res.val >= 0 THEN Ok(POSITIVE_SIDE) ELSE Ok(NEGATIVE_SIDE)

\* SimHash.Sketch: one character per hyperplane, joined
RECURSIVE Sketch(_, _)
Sketch(Hyperplanes, embedding) ==
    IF Hyperplanes = <<>> THEN Ok(<<>>)
    ELSE LET res == hash(Head(Hyperplanes), embedding)
         IN  IF res.err # "" THEN res
             ELSE LET rest == Sketch(Tail(Hyperplanes), embedding)
                  IN  IF rest.err # "" THEN rest
                      ELSE Ok(res.val \o rest.val)

----------------------------------------------------------------------------
(* Semantic re-ranker (package semantic)                                   *)

\* A similarity or a norm product is the real number num / sqrt(densq).
Real(num, densq) == [num |-> num, densq |-> densq]

\* x < y for two such reals
RealLess(x, y) ==
    IF x.num >= 0 /\ y.num >= 0
        THEN x.num * x.num * y.densq < y.num * y.num * x.densq
    ELSE IF x.num < 0 /\ y.num >= 0 THEN TRUE
    ELSE IF x.num >= 0 /\ y.num < 0 THEN FALSE
    ELSE x.num * x.num * y.densq > y.num * y.num * x.densq

\* the float64 threshold n / ThresholdDen
ThresholdReal(tn) == Real(tn, ThresholdDen * ThresholdDen)

\* euclideanNorm: the value carried is the squared norm, dotProduct(vec, vec)
euclideanNorm(vec) ==
    IF Len(vec) = 0 THEN Fail("emptyVector")
    ELSE dotProduct(vec, vec)

\* norm <= EPSILON (1e-10): the square root of a natural number is at
\* most 1e-10 exactly when the number is 0.
LeqEpsilon(normSq) == normSq = 0

\* Faulty variant of cosineSim: the error of dotProduct is dropped and its
\* zero result used.
cosineSimNoErr(vecA, vecB, normA, normB) ==
    IF LeqEpsilon(normA) \/ LeqEpsilon(normB) THEN Ok(Real(0 - 1, 1))
    ELSE LET dp == dotProduct(vecA, vecB)
         IN  Ok(Real(IF dp.err # "" THEN 0 ELSE dp.val, normA * normB))

\* cosineSim
cosineSim(vecA, vecB, normA, normB) ==
    IF LeqEpsilon(normA) \/ LeqEpsilon(normB) THEN Ok(Real(0 - 1, 1))
    ELSE LET dp == dotProduct(vecA, vecB)
         IN  IF dp.err # "" THEN Fail(dp.err)
             ELSE Ok(Real(dp.val, normA * normB))

\* The similarity Search computes for one candidate.
CandidateSim(queryVec, queryVecNorm, candidate) ==
    LET candidateNorm == euclideanNorm(candidate)
    IN  IF candidateNorm.err # "" THEN Fail(candidateNorm.err)
        ELSE cosineSim(queryVec, candidate, queryVecNorm, candidateNorm.val)

\* Faulty variant of the filter: the similarity is compared with 0 and not
\* with the threshold.
PassesZero(sim, tn) == ~RealLess(sim, Real(0, 1))

\* sim >= threshold
PassesThreshold(sim, tn) == ~RealLess(sim, ThresholdReal(tn))

\* Faulty variant of the sort: less(i, j) = sim[i] < sim[j], ascending.
SortedOrdersAscending(ids, simMap) ==
    LET n == Cardinality(ids)
    IN  { p \in [1 .. n -> ids] :
            /\ \A i, j \in 1 .. n : i # j => p[i] # p[j]
            /\ \A i, j \in 1 .. n :
                   i < j => ~RealLess(simMap[p[j]], simMap[p[i]]) }

\* Faulty variant of the sort: the arrangement need not be a permutation, an
\* id may be written over another.
SortedOrdersRepeating(ids, simMap) ==
    LET n == Cardinality(ids)
    IN  { p \in [1 .. n -> ids] :
            \A i, j \in 1 .. n :
                i < j => ~RealLess(simMap[p[i]], simMap[p[j]]) }

\* The orders sort.Slice may leave ids in, with less(i, j) = sim[i] > sim[j]:
\* every arrangement in which no element precedes one of greater similarity.
SortedOrders(ids, simMap) ==
    LET n == Cardinality(ids)
    IN  { p \in [1 .. n -> ids] :
            /\ \A i, j \in 1 .. n : i # j => p[i] # p[j]
            /\ \A i, j \in 1 .. n :
                   i < j => ~RealLess(simMap[p[i]], simMap[p[j]]) }

\* Faulty variant of the cut: k == 0 is not taken to mean "all".
TruncateNoZero(ids, k) == IF k > Len(ids) THEN ids ELSE SubSeq(ids, 1, k)

\* Faulty variant of the cut: the last k ids are kept, ids[len(ids)-k:].
TruncateTail(ids, k) ==
    IF k = 0 \/ k > Len(ids) THEN ids
    ELSE SubSeq(ids, Len(ids) - k + 1, Len(ids))

\* ids[:k] unless k == 0 || k > len(ids)
Truncate(ids, k) == IF k = 0 \/ k > Len(ids) THEN ids ELSE SubSeq(ids, 1, k)

\* Semantic.Search: the set of results it may return.  candidates is a Go
\* map (a function id -> vector) iterated in an unspecified order, so the
\* error of any failing candidate may be the one returned.
Search(queryVec, candidates, tn, k) ==
    LET queryVecNorm == euclideanNorm(queryVec)
    IN  IF queryVecNorm.err # "" THEN {Fail(queryVecNorm.err)}
        ELSE
          LET simOf == [id \in DOMAIN candidates |->
                          CandidateSim(queryVec, queryVecNorm.val, candidates[id])]
              failing == {id \in DOMAIN candidates : simOf[id].err # ""}
          IN  IF failing # {} THEN {Fail(simOf[id].err) : id \in failing}
              ELSE
                LET simMap == [id \in DOMAIN candidates |-> simOf[id].val]
                    ids == {id \in DOMAIN candidates :
                               PassesThreshold(simMap[id], tn)}
                IN  {Ok(Truncate(p, k)) : p \in SortedOrders(ids, simMap)}

----------------------------------------------------------------------------
(* Storage (package storage): one badger transaction per call              *)

\* a < b in the byte order badger iterates keys in
RECURSIVE LexLess(_, _)
LexLess(a, b) ==
    IF b = <<>> THEN FALSE
    ELSE IF a = <<>> THEN TRUE
    ELSE IF Head(a) # Head(b) THEN Head(a) < Head(b)
    ELSE LexLess(Tail(a), Tail(b))

\* the keys of a set in iteration order
RECURSIVE SortKeys(_)
SortKeys(keys) ==
    IF keys = {} THEN <<>>
    ELSE LET first == CHOOSE a \in keys : \A b \in keys \ {a} : LexLess(a, b)
         IN  <<first>> \o SortKeys(keys \ {first})

\* Storage.KeyExists
KeyExists(store, k) == k \in DOMAIN store

\* Storage.Get: txn.Get fails with ErrKeyNotFound on an absent key
StorageGet(store, k) ==
    IF k \in DOMAIN store THEN Ok(store[k]) ELSE Fail("KeyNotFound")

\* Storage.GetWithPrefix: Seek(prefix), then every item ValidForPrefix
GetWithPrefix(store, prefix) ==
    LET found == SortKeys({k \in DOMAIN store : HasPrefix(k, prefix)})
    IN  [i \in 1 .. Len(found) |-> store[found[i]]]

\* Faulty variant of Storage.Add: the entries are not set in one
\* transaction, and only the first of them (in key order) is written.
StorageAddPartial(store, data) ==
    IF DOMAIN data = {} THEN store
    ELSE LET first == CHOOSE a \in DOMAIN data :
                          \A b \in DOMAIN data \ {a} : LexLess(a, b)
         IN  (first :> data[first]) @@ store

\* Storage.Add: db.Update sets every entry of data in one transaction; the
\* store after a commit.  A failed Update leaves the store as it was.
StorageAdd(store, data) == data @@ store

----------------------------------------------------------------------------
(* LSH index (package lsh)                                                 *)

MIN_NUM_ROUNDS == 1
MIN_NUM_HYPERPLANES == 1
MIN_SPACE_DIM == 2

\* An *LSH: indexName, numRounds, numHyperPlanes, spaceDim and hashes, the
\* sequence of the rounds' Hyperplanes matrices.
LSH(indexName, numRounds, numHyperPlanes, spaceDim, hashes) ==
    [indexName |-> indexName, numRounds |-> numRounds,
     numHyperPlanes |-> numHyperPlanes, spaceDim |-> spaceDim,
     hashes |-> hashes]

\* LSH.setHyperParams
setHyperParams(numRounds, numHyperplanes, spaceDim) ==
    [numRounds |->
        IF numRounds < MIN_NUM_ROUNDS THEN MIN_NUM_ROUNDS ELSE numRounds,
     numHyperPlanes |->
        IF numHyperplanes < MIN_NUM_HYPERPLANES
        THEN MIN_NUM_HYPERPLANES ELSE numHyperplanes,
     spaceDim |->
        IF spaceDim < MIN_NUM_HYPERPLANES THEN MIN_SPACE_DIM ELSE spaceDim]

\* LSH.Info
Info(l) ==
    [numRounds |-> l.numRounds, numHyperPlanes |-> l.numHyperPlanes,
     spaceDim |-> l.spaceDim]

\* LSH.indexExists
indexExists(store, indexName) == KeyExists(store, getIndexKey(indexName))

\* LSH.storeConfig: the batch handed to kv.Add
storeConfig(l) ==
    [k \in {getHyperPlanesKey(l.indexName, i - 1) : i \in 1 .. Len(l.hashes)}
        |-> LET i == CHOOSE i \in 1 .. Len(l.hashes) :
                        getHyperPlanesKey(l.indexName, i - 1) = k
            IN  encodeFloat64Slice2D(l.hashes[i])]
    @@ (getIndexKey(l.indexName) :> <<>>)
    @@ (getNumRoundsKey(l.indexName) :> encodeUInt32(l.numRounds))
    @@ (getNumHyperPlanesKey(l.indexName) :> encodeUInt32(l.numHyperPlanes))
    @@ (getSpaceDimKey(l.indexName) :> encodeUInt32(l.spaceDim))

\* the loop of getStoredConfig over the rounds i .. numRounds - 1
RECURSIVE LoadHashes(_, _, _, _, _)
LoadHashes(store, indexName, i, numRounds, spaceDim) ==
    IF i >= numRounds THEN Ok(<<>>)
    ELSE LET encodedHyperPlanes ==
                 StorageGet(store, getHyperPlanesKey(indexName, i))
         IN  IF encodedHyperPlanes.err # "" THEN Fail(encodedHyperPlanes.err)
             ELSE LET hyperPlanes ==
                          decodeFloat64Slice2D(encodedHyperPlanes.val, spaceDim)
                  IN  IF hyperPlanes.err # "" THEN Fail(hyperPlanes.err)
                      ELSE LET rest == LoadHashes(store, indexName, i + 1,
                                                  numRounds, spaceDim)
                           IN  IF rest.err # "" THEN rest
                               ELSE Ok(<<hyperPlanes.val>> \o rest.val)

\* Faulty variant of getStoredConfig: spaceDim is read from the
\* num_hyperplanes key.
getStoredConfigWrongKey(store, indexName) ==
    LET encodedNumRounds == StorageGet(store, getNumRoundsKey(indexName))
        encodedNumHyperPlanes ==
            StorageGet(store, getNumHyperPlanesKey(indexName))
        encodedSpaceDim == StorageGet(store, getNumHyperPlanesKey(indexName))
    IN  IF encodedNumRounds.err # "" THEN Fail(encodedNumRounds.err)
        ELSE IF encodedNumHyperPlanes.err # ""
            THEN Fail(encodedNumHyperPlanes.err)
        ELSE IF encodedSpaceDim.err # "" THEN Fail(encodedSpaceDim.err)
        ELSE LET numRounds == Uint32(encodedNumRounds.val)
                 numHyperPlanes == Uint32(encodedNumHyperPlanes.val)
                 spaceDim == Uint32(encodedSpaceDim.val)
                 hashes == LoadHashes(store, indexName, 0, numRounds, spaceDim)
             IN  IF hashes.err # "" THEN Fail(hashes.err)
                 ELSE Ok(LSH(indexName, numRounds, numHyperPlanes, spaceDim,
                             hashes.val))

\* LSH.getStoredConfig
getStoredConfig(store, indexName) ==
    LET encodedNumRounds == StorageGet(store, getNumRoundsKey(indexName))
        encodedNumHyperPlanes ==
            StorageGet(store, getNumHyperPlanesKey(indexName))
        encodedSpaceDim == StorageGet(store, getSpaceDimKey(indexName))
    IN  IF encodedNumRounds.err # "" THEN Fail(encodedNumRounds.err)
        ELSE IF encodedNumHyperPlanes.err # ""
            THEN Fail(encodedNumHyperPlanes.err)
        ELSE IF encodedSpaceDim.err # "" THEN Fail(encodedSpaceDim.err)
        ELSE LET numRounds == Uint32(encodedNumRounds.val)
                 numHyperPlanes == Uint32(encodedNumHyperPlanes.val)
                 spaceDim == Uint32(encodedSpaceDim.val)
                 hashes == LoadHashes(store, indexName, 0, numRounds, spaceDim)
             IN  IF hashes.err # "" THEN Fail(hashes.err)
                 ELSE Ok(LSH(indexName, numRounds, numHyperPlanes, spaceDim,
                             hashes.val))

\* LSH.getSketches: one sketch per hash
RECURSIVE SketchEach(_, _)
SketchEach(hashes, embedding) ==
    IF hashes = <<>> THEN Ok(<<>>)
    ELSE LET sk == Sketch(Head(hashes), embedding)
         IN  IF sk.err # "" THEN sk
             ELSE LET rest == SketchEach(Tail(hashes), embedding)
                  IN  IF rest.err # "" THEN rest
                      ELSE Ok(<<sk.val>> \o rest.val)

getSketches(l, embedding) == SketchEach(l.hashes, embedding)

\* LSH.checkEmbedding
checkEmbedding(l, embedding) ==
    IF l.spaceDim # Len(embedding) THEN "embeddingLen" ELSE ""

\* Faulty variant of checkThreshold: the thresholds 0 and 1 are refused.
checkThresholdOpen(tn) ==
    IF ~RealLess(Real(0, 1), ThresholdReal(tn))
       \/ ~RealLess(ThresholdReal(tn), Real(1, 1))
    THEN "invalidThreshold" ELSE ""

\* LSH.checkThreshold
checkThreshold(tn) ==
    IF RealLess(ThresholdReal(tn), Real(0, 1))
       \/ RealLess(Real(1, 1), ThresholdReal(tn))
    THEN "invalidThreshold" ELSE ""

\* LSH.checkSketches
checkSketches(l, sks) ==
    IF l.numRounds # Len(sks) THEN "invalidNumSketches"
    ELSE IF \E i \in 1 .. Len(sks) : l.numHyperPlanes # Len(sks[i])
        THEN "invalidSketchLen"
    ELSE ""

\* LSH.checkGetParams
checkGetParams(l, queryVec, tn) ==
    IF checkEmbedding(l, queryVec) # "" THEN checkEmbedding(l, queryVec)
    ELSE checkThreshold(tn)

\* LSH.prepareEmbedding
prepareEmbedding(l, id, embedding) ==
    IF checkEmbedding(l, embedding) # ""
        THEN Fail(checkEmbedding(l, embedding))
    ELSE Ok(getEmbeddingKey(l.indexName, id) :> encodeFloat64Slice(embedding))

\* Faulty variant of prepareSketches: the empty id is let through.
prepareSketchesAnyID(l, id, sks) ==
    IF checkSketches(l, sks) # "" THEN Fail(checkSketches(l, sks))
    ELSE Ok([k \in {getSketchKey(l.indexName, sks[i], id) :
                       i \in 1 .. Len(sks)} |-> id])

\* LSH.prepareSketches
prepareSketches(l, id, sks) ==
    IF Len(id) = 0 THEN Fail("invalidIDLen")
    ELSE IF checkSketches(l, sks) # "" THEN Fail(checkSketches(l, sks))
    ELSE Ok([k \in {getSketchKey(l.indexName, sks[i], id) :
                       i \in 1 .. Len(sks)} |-> id])

\* Faulty variant of LSH.Add: the membership entries are left out of the
\* batch.
AddEmbeddingOnly(l, id, embedding) ==
    LET embedData == prepareEmbedding(l, id, embedding)
    IN  IF embedData.err # "" THEN embedData
        ELSE LET sks == getSketches(l, embedding)
             IN  IF sks.err # "" THEN sks
                 ELSE LET sksData == prepareSketches(l, id, sks.val)
                      IN  IF sksData.err # "" THEN sksData
                          ELSE Ok(embedData.val)

\* LSH.Add up to its kv.Add call: the batch it commits, or its error
Add(l, id, embedding) ==
    LET embedData == prepareEmbedding(l, id, embedding)
    IN  IF embedData.err # "" THEN embedData
        ELSE LET sks == getSketches(l, embedding)
             IN  IF sks.err # "" THEN sks
                 ELSE LET sksData == prepareSketches(l, id, sks.val)
                      IN  IF sksData.err # "" THEN sksData
                          ELSE Ok(sksData.val @@ embedData.val)

\* LSH.getBucketIDs
getBucketIDs(store, l, sk) ==
    GetWithPrefix(store, getSketchPrefixKey(l.indexName, sk))

\* LSH.getEmbedding
getEmbedding(store, l, id) ==
    LET encodedEmbed == StorageGet(store, getEmbeddingKey(l.indexName, id))
    IN  IF encodedEmbed.err # "" THEN encodedEmbed
        ELSE decodeFloat64Slice(encodedEmbed.val)

\* the inner loop of getEmbeddingsFromBuckets: the ids of one bucket
RECURSIVE CollectIDs(_, _, _, _)
CollectIDs(store, l, ids, data) ==
    IF ids = <<>> THEN Ok(data)
    ELSE IF Head(ids) \in DOMAIN data
        THEN CollectIDs(store, l, Tail(ids), data)
    ELSE LET embed == getEmbedding(store, l, Head(ids))
         IN  IF embed.err # "" THEN embed
             ELSE CollectIDs(store, l, Tail(ids),
                             (Head(ids) :> embed.val) @@ data)

\* LSH.getEmbeddingsFromBuckets: buckets in round order, ids in key order
RECURSIVE CollectBuckets(_, _, _, _)
CollectBuckets(store, l, sks, data) ==
    IF sks = <<>> THEN Ok(data)
    ELSE LET got == CollectIDs(store, l, getBucketIDs(store, l, Head(sks)),
                               data)
         IN  IF got.err # "" THEN got
             ELSE CollectBuckets(store, l, Tail(sks), got.val)

getEmbeddingsFromBuckets(store, l, sks) ==
    CollectBuckets(store, l, sks, <<>>)

\* LSH.Get: the set of results it may return
Get(store, l, queryVec, tn, k) ==
    IF checkGetParams(l, queryVec, tn) # ""
        THEN {Fail(checkGetParams(l, queryVec, tn))}
    ELSE LET sks == getSketches(l, queryVec)
         IN  IF sks.err # "" THEN {sks}
             ELSE LET candidates == getEmbeddingsFromBuckets(store, l, sks.val)
                  IN  IF candidates.err # "" THEN {candidates}
                      ELSE Search(queryVec, candidates.val, tn, k)

\* simhash.generateHyperplanes: the matrices it may draw.  The draws of
\* rand.NormFloat64 are taken from {-1, 1}, the first of a row being 1.
PlaneRows(spaceDim) == {r \in [1 .. spaceDim -> {0 - 1, 1}] : r[1] = 1}

generateHyperplanes(numHyperPlanes, spaceDim) ==
    IF numHyperPlanes = 0 THEN {Fail("numHyperPlanes")}
    ELSE IF spaceDim = 0 THEN {Fail("spaceDim")}
    ELSE {Ok(m) : m \in [1 .. numHyperPlanes -> PlaneRows(spaceDim)]}

\* the loop of lsh.New over the rounds: the hashes it may build
NewHashes(numRounds, numHyperPlanes, spaceDim) ==
    LET drawn == generateHyperplanes(numHyperPlanes, spaceDim)
    IN  IF \E sh \in drawn : sh.err # ""
            THEN {Fail(sh.err) : sh \in {d \in drawn : d.err # ""}}
        ELSE {Ok(hashes) :
                hashes \in [1 .. numRounds -> {sh.val : sh \in drawn}]}

\* lsh.New on an index whose marker key exists: the stored config is loaded
NewExisting(store, indexName) == getStoredConfig(store, indexName)

\* lsh.New on a new index: the objects it may build before storeConfig
NewFresh(indexName, numRounds, numHyperPlanes, spaceDim) ==
    LET p == setHyperParams(numRounds, numHyperPlanes, spaceDim)
    IN  { IF hashes.err # "" THEN Fail(hashes.err)
          ELSE Ok(LSH(indexName, p.numRounds, p.numHyperPlanes, p.spaceDim,
                      hashes.val)) :
          hashes \in NewHashes(p.numRounds, p.numHyperPlanes, p.spaceDim) }

\* lsh.New(indexName, kv, numRounds, numHyperPlanes, spaceDim): the outcomes
\* it may have on store.  Each is the error or the *LSH returned, with the
\* store it leaves; storeConfig's kv.Add may fail, and then writes nothing.
New(store, indexName, numRounds, numHyperPlanes, spaceDim) ==
    IF indexExists(store, indexName)
    THEN LET got == NewExisting(store, indexName)
         IN  {[err |-> got.err, l |-> got.val, kv |-> store,
               existed |-> TRUE]}
    ELSE UNION {
           IF built.err # ""
           THEN {[err |-> built.err, l |-> <<>>, kv |-> store,
                  existed |-> FALSE]}
           ELSE {[err |-> "storage", l |-> <<>>, kv |-> store,
                  existed |-> FALSE],
                 [err |-> "", l |-> built.val,
                  kv |-> StorageAdd(store, storeConfig(built.val)),
                  existed |-> FALSE]} :
           built \in NewFresh(indexName, numRounds, numHyperPlanes,
                              spaceDim) }

----------------------------------------------------------------------------
(* Inputs of the operations                                                *)

\* Number of distinct LSH objects alive at once, number of committed Adds.
MaxHandles == 3
MaxAdds == 2

NameA == <<97>>                                              \* "a"
NameB == NameA \o S_slash \o S_embedding \o S_slash \o <<120>> \* "a/embedding/x"
NameC == NameA \o S_slash \o S_sketch \o S_slash \o POSITIVE_SIDE \* "a/sketch/1"
IndexNames == {NameA, NameB, NameC}

IdX == <<120>>                                               \* "x"
IdY == IdX \o S_slash \o S_num_rounds                        \* "x/num_rounds"
ItemIDs == {<<>>, IdX, IdY}

\* indexName, numRounds, numHyperPlanes, spaceDim passed to lsh.New
NewCalls ==
    {<<NameA, 0, 0, 0>>, <<NameA, 2, 1, 2>>, <<NameB, 1, 2, 1>>,
     <<NameC, 1, 1, 1>>}

Vectors == {<<>>, <<1>>, <<0, 0>>, <<1, 0>>, <<0, 1>>}

NoOp == [op |-> "none"]

\* The Adds committed so far, all keys together.
RECURSIVE NumAdded(_)
NumAdded(hist) ==
    IF DOMAIN hist = {} THEN 0
    ELSE LET a == CHOOSE a \in DOMAIN hist : TRUE
         IN  Len(hist[a])
             + NumAdded([b \in DOMAIN hist \ {a} |-> hist[b]])

\* hist with one more committed Add of embedding under id through l.
Record(hist, l, id, embedding) ==
    LET a == <<l.indexName, id>>
        e == [l |-> l, embedding |-> embedding]
    IN  (a :> (IF a \in DOMAIN hist THEN Append(hist[a], e) ELSE <<e>>))
            @@ hist

----------------------------------------------------------------------------
(* The index on its store: lsh.New, LSH.Add, LSH.Get.  A call leaves its   *)
(* arguments and its result in last; Return hands them to the caller, who  *)
(* then makes the next call.                                               *)

Init ==
    /\ kv = <<>>
    /\ handles = {}
    /\ added = <<>>
    /\ created = <<>>
    /\ last = NoOp
    /\ items = <<>>
    /\ dbOpen = FALSE
    /\ calls = <<>>
    /\ mu = [readerCount |-> 0, writer |-> FALSE]

KeepHandle(l) == l \in handles \/ Cardinality(handles) < MaxHandles

\* lsh.New(indexName, kv, numRounds, numHyperPlanes, spaceDim)
LSHNew(indexName, numRounds, numHyperPlanes, spaceDim) ==
    /\ last = NoOp
    /\ \E out \in New(kv, indexName, numRounds, numHyperPlanes, spaceDim) :
          /\ out.err = "" => KeepHandle(out.l)
          /\ kv' = out.kv
          /\ handles' = IF out.err = "" THEN handles \cup {out.l}
                        ELSE handles
          /\ created' = IF out.err = "" /\ ~out.existed
                        THEN (indexName :> out.l) @@ created ELSE created
          /\ last' = [op |-> "New", indexName |-> indexName,
                      numRounds |-> numRounds,
                      numHyperPlanes |-> numHyperPlanes,
                      spaceDim |-> spaceDim, existed |-> out.existed,
                      err |-> out.err, l |-> out.l]
    /\ UNCHANGED <<added, items, dbOpen, calls, mu>>

\* LSH.Add(id, embedding) on l
LSHAdd(l, id, embedding) ==
    /\ last = NoOp
    /\ LET batch == Add(l, id, embedding)
           call == [op |-> "Add", l |-> l, id |-> id,
                    embedding |-> embedding]
       IN  IF batch.err # ""
           THEN /\ UNCHANGED <<kv, added>>
                /\ last' = call @@ [err |-> batch.err]
           ELSE \E commit \in BOOLEAN :
                IF ~commit
                THEN /\ UNCHANGED <<kv, added>>
                     /\ last' = call @@ [err |-> "storage"]
                ELSE /\ NumAdded(added) < MaxAdds
                     /\ kv' = StorageAdd(kv, batch.val)
                     /\ added' = Record(added, l, id, embedding)
                     /\ last' = call @@ [err |-> ""]
    /\ UNCHANGED <<handles, created, items, dbOpen, calls, mu>>

\* LSH.Get(queryVec, threshold, k) on l
LSHGet(l, queryVec, tn, k) ==
    /\ last = NoOp
    /\ \E res \in Get(kv, l, queryVec, tn, k) :
          last' = [op |-> "Get", l |-> l, queryVec |-> queryVec, tn |-> tn,
                   k |-> k, err |-> res.err, ids |-> res.val]
    /\ UNCHANGED <<kv, handles, added, created, items, dbOpen, calls, mu>>

\* The caller has the result of its call.
Return ==
    /\ last # NoOp
    /\ last' = NoOp
    /\ UNCHANGED <<kv, handles, added, created, items, dbOpen, calls, mu>>

Next ==
    \/ \E c \in NewCalls : LSHNew(c[1], c[2], c[3], c[4])
    \/ \E l \in handles, id \in ItemIDs, embedding \in Vectors :
          LSHAdd(l, id, embedding)
    \/ \E l \in handles, queryVec \in Vectors, tn \in Thresholds, k \in Ks :
          LSHGet(l, queryVec, tn, k)
    \/ Return

Spec == Init /\ [][Next]_vars

----------------------------------------------------------------------------
(* Database facade (vectoria.go)                                           *)

\* safeMap.keyExists
keyExists(its, k) == k \in DOMAIN its

\* safeMap.add
add(its, k, value) == (k :> value) @@ its

\* safeMap.del, for each key of a set
del(its, keys) == [k \in DOMAIN its \ keys |-> its[k]]

\* LSHConfig
LSHConfig(IndexName, NumRounds, NumHyperPlanes, SpaceDim) ==
    [IndexName |-> IndexName, NumRounds |-> NumRounds,
     NumHyperPlanes |-> NumHyperPlanes, SpaceDim |-> SpaceDim]

\* uuid.NewString() for the i-th config: "u" followed by i, a name no other
\* config has.
NewString(i) == <<117>> \o Itoa(i)

\* DB.addLSHRollback(configs...): the names deleted are those of the configs
\* as passed.
addLSHRollback(its, configs) ==
    del(its, {configs[j].IndexName : j \in 1 .. Len(configs)})

\* DB.addLSH(configs...) from its i-th config on: the outcomes it may have,
\* each the error returned with the registry and the store left.
RECURSIVE addLSHFrom(_, _, _, _, _)
addLSHFrom(configs, i, its, store, crt) ==
    IF i > Len(configs)
    THEN {[err |-> "", items |-> its, kv |-> store, created |-> crt]}
    ELSE IF keyExists(its, configs[i].IndexName)
    THEN {[err |-> "indexAlreadyExists",
           items |-> addLSHRollback(its, SubSeq(configs, 1, i)),
           kv |-> store, created |-> crt]}
    ELSE LET IndexName == IF configs[i].IndexName = <<>> THEN NewString(i)
                          ELSE configs[i].IndexName
         IN  UNION {
               IF out.err # ""
               THEN {[err |-> out.err, items |-> its, kv |-> out.kv,
                      created |-> crt]}
               ELSE addLSHFrom(configs, i + 1,
                               add(its, IndexName, out.l), out.kv,
                               IF out.existed THEN crt
                               ELSE (IndexName :> out.l) @@ crt) :
               out \in New(store, IndexName, configs[i].NumRounds,
                           configs[i].NumHyperPlanes, configs[i].SpaceDim) }

addLSH(configs, its, store, crt) == addLSHFrom(configs, 1, its, store, crt)

\* The arrangements of a set in a sequence.
Orders(set) ==
    {p \in [1 .. Cardinality(set) -> set] :
        \A i, j \in 1 .. Cardinality(set) : i # j => p[i] # p[j]}

\* Faulty variant of Indexes: one key of the registry only.
IndexesOne(its) == {<<n>> : n \in DOMAIN its}

\* DB.Indexes: the keys of the registry, in the order the map yields them
Indexes(its) == Orders(DOMAIN its)

\* Faulty variant of NumIndexes: one too many.
NumIndexesMore(its) == Cardinality(DOMAIN its) + 1

\* DB.NumIndexes
NumIndexes(its) == Cardinality(DOMAIN its)

\* DB.Get(queryVec, threshold, k, indexNames...): the results it may return,
\* each the error or the map index name -> ids.
RECURSIVE GetEach(_, _, _, _, _, _, _)
GetEach(its, store, queryVec, tn, k, indexNames, res) ==
    IF indexNames = <<>> THEN {Ok(res)}
    ELSE IF ~keyExists(its, Head(indexNames)) THEN {Fail("indexDoesNotExist")}
    ELSE UNION {
           IF got.err # "" THEN {Fail(got.err)}
           ELSE GetEach(its, store, queryVec, tn, k, Tail(indexNames),
                        (Head(indexNames) :> got.val) @@ res) :
           got \in Get(store, its[Head(indexNames)], queryVec, tn, k) }

DBGet(its, store, queryVec, tn, k, indexNames) ==
    UNION { GetEach(its, store, queryVec, tn, k, names, <<>>) :
            names \in IF indexNames = <<>> THEN Indexes(its)
                      ELSE {indexNames} }

\* sync.RWMutex of the safeMap: RLock is granted unless a writer holds the
\* lock, Lock when nobody holds it.
CanRLock(m) == ~m.writer

RLock(m) == [m EXCEPT !.readerCount = @ + 1]

\* Faulty variant of RUnlock: the shared lock is kept.
RUnlockKept(m) == m

RUnlock(m) == [m EXCEPT !.readerCount = @ - 1]

CanLock(m) == ~m.writer /\ m.readerCount = 0

\* Faulty variant of safeMap.get: an absent key yields some index of the
\* registry.
getAny(its, k) ==
    IF DOMAIN its = {} THEN [idx |-> <<>>, ok |-> FALSE]
    ELSE [idx |-> IF k \in DOMAIN its THEN its[k]
                  ELSE its[CHOOSE n \in DOMAIN its : TRUE],
          ok |-> TRUE]

\* safeMap.get: the index and whether the key is there
get(its, k) ==
    [idx |-> IF k \in DOMAIN its THEN its[k] ELSE <<>>,
     ok |-> k \in DOMAIN its]

\* Number of goroutines calling DB.Add and DB.Get.
NumThreads == 2
Threads == 1 .. NumThreads

NameU == NewString(1)                                        \* "u1"

\* DBConfig.LSH passed to vectoria.New
DBConfigs ==
    {<<>>,
     <<LSHConfig(NameA, 0, 0, 0)>>,
     <<LSHConfig(NameA, 2, 1, 2)>>,
     <<LSHConfig(<<>>, 0, 0, 0)>>,
     <<LSHConfig(<<>>, 0, 0, 0), LSHConfig(NameA, 0, 0, 0)>>,
     <<LSHConfig(NameA, 0, 0, 0), LSHConfig(NameB, 1, 2, 1)>>,
     <<LSHConfig(NameA, 0, 0, 0), LSHConfig(NameC, 1, 1, 1)>>,
     <<LSHConfig(<<>>, 0, 0, 0), LSHConfig(NameA, 0, 0, 0),
       LSHConfig(NameA, 2, 1, 2)>>}

\* itemID, itemVec, indexNames passed to DB.Add
DBAddCalls ==
    {<<IdX, <<1, 0>>, <<NameA>>>>, <<IdX, <<0, 1>>, <<NameA>>>>,
     <<IdY, <<0, 1>>, <<NameA>>>>, <<IdX, <<0, 0>>, <<NameA>>>>,
     <<IdY, <<1, 0>>, <<>>>>, <<IdX, <<1>>, <<NameB>>>>,
     <<<<>>, <<1, 0>>, <<NameA>>>>, <<IdY, <<1, 0>>, <<NameA, NameB>>>>}

\* queryVec, threshold, k, indexNames passed to DB.Get
DBGetCalls ==
    {<<<<1, 0>>, 0, 0, <<>>>>, <<<<0, 1>>, 1, 1, <<NameA>>>>,
     <<<<1, 0>>, 0, 0, <<NameA, NameB>>>>}

\* vectoria.New(config): storage.New opens the store at config.Path, which
\* holds what earlier calls left there; addLSH registers the indexes, taking
\* and releasing the lock of the registry around each access.  A failed New
\* returns no DB.
DBNew(configs) ==
    /\ ~dbOpen
    /\ CanLock(mu)
    /\ \E out \in addLSH(configs, <<>>, kv, created) :
          /\ kv' = out.kv
          /\ created' = out.created
          /\ dbOpen' = (out.err = "")
          /\ items' = IF out.err = "" THEN out.items ELSE <<>>
          /\ last' = [op |-> "DBNew", configs |-> configs, err |-> out.err,
                      items |-> out.items, kv |-> out.kv]
    /\ UNCHANGED <<handles, added, calls, mu>>

\* A call of DB.Add or DB.Get by a goroutine: its arguments, its position
\* and its local variables.  rest holds the index names still to process,
\* committed those whose Add was committed, res the result map of a Get,
\* sks, ids and data the locals of getEmbeddingsFromBuckets, and version the
\* number of Adds committed when the call began.
Call(op, itemID, itemVec, tn, k, indexNames, names) ==
    [op |-> op, pc |-> IF names = <<>> THEN "done" ELSE "loop",
     itemID |-> itemID, itemVec |-> itemVec, tn |-> tn, k |-> k,
     indexNames |-> indexNames, rest |-> names, committed |-> <<>>,
     res |-> <<>>, err |-> "", sks |-> <<>>, ids |-> <<>>, data |-> <<>>,
     version |-> NumAdded(added)]

\* A goroutine t whose call has returned err; a failed Get returns no map.
Done(t, err) ==
    [calls[t] EXCEPT !.pc = "done", !.err = err,
                     !.res = IF err = "" THEN @ ELSE <<>>,
                     !.sks = <<>>, !.ids = <<>>, !.data = <<>>]

\* The end of a turn of the loop of DB.Add or DB.Get of goroutine t, c being
\* its call after the turn: the next name, or the return.
NextTurn(c) ==
    [c EXCEPT !.rest = Tail(c.rest),
              !.pc = IF Tail(c.rest) = <<>> THEN "done" ELSE "loop",
              !.sks = <<>>, !.ids = <<>>, !.data = <<>>]

\* Goroutine t begins its call: the goroutines are numbered in the order in
\* which their calls begin.
Begins(t) == t \notin DOMAIN calls /\ \A u \in 1 .. t - 1 : u \in DOMAIN calls

\* DB.Add(itemID, itemVec, indexNames...) by goroutine t, up to its loop:
\* the NumIndexes check and the default of indexNames, both read from the
\* registry map without its lock.
DBAddStart(t, itemID, itemVec, indexNames) ==
    /\ dbOpen
    /\ Begins(t)
    /\ IF NumIndexes(items) = 0
       THEN calls' = (t :> [Call("Add", itemID, itemVec, 0, 0, indexNames,
                                 <<>>)
                               EXCEPT !.err = "dbHasNoIndex"]) @@ calls
       ELSE \E names \in IF indexNames = <<>> THEN Indexes(items)
                         ELSE {indexNames} :
               calls' = (t :> Call("Add", itemID, itemVec, 0, 0, indexNames,
                                   names)) @@ calls
    /\ UNCHANGED <<kv, handles, added, created, last, items, dbOpen, mu>>

\* DB.Get(queryVec, threshold, k, indexNames...) by goroutine t, up to its
\* loop: the default of indexNames, read from the registry map without its
\* lock.
DBGetStart(t, queryVec, tn, k, indexNames) ==
    /\ dbOpen
    /\ Begins(t)
    /\ \E names \in IF indexNames = <<>> THEN Indexes(items)
                    ELSE {indexNames} :
          calls' = (t :> Call("Get", <<>>, queryVec, tn, k, indexNames,
                              names)) @@ calls
    /\ UNCHANGED <<kv, handles, added, created, last, items, dbOpen, mu>>

\* safeMap.get by goroutine t, first half: mu.RLock()
DBRLock(t) ==
    /\ t \in DOMAIN calls
    /\ calls[t].pc = "loop"
    /\ CanRLock(mu)
    /\ mu' = RLock(mu)
    /\ calls' = [calls EXCEPT ![t].pc = "get"]
    /\ UNCHANGED <<kv, handles, added, created, last, items, dbOpen>>

\* safeMap.get by goroutine t, second half: the read of the map and the
\* deferred mu.RUnlock(); then the test of ok and, in DB.Get, the checks and
\* the sketches of LSH.Get, which touch no shared state.
DBLookup(t) ==
    /\ t \in DOMAIN calls
    /\ calls[t].pc = "get"
    /\ mu' = RUnlock(mu)
    /\ LET c == calls[t]
           got == get(items, Head(c.rest))
           sks == getSketches(got.idx, c.itemVec)
       IN  calls' = [calls EXCEPT ![t] =
               IF ~got.ok THEN Done(t, "indexDoesNotExist")
               ELSE IF c.op = "Add" THEN [c EXCEPT !.pc = "add"]
               ELSE IF checkGetParams(got.idx, c.itemVec, c.tn) # ""
                   THEN Done(t, checkGetParams(got.idx, c.itemVec, c.tn))
               ELSE IF sks.err # "" THEN Done(t, sks.err)
               ELSE [c EXCEPT !.pc = "buckets", !.sks = sks.val]]
    /\ UNCHANGED <<kv, handles, added, created, last, items, dbOpen>>

\* idx.add in the loop of DB.Add by goroutine t: LSH.Add, whose single
\* kv.Add is one badger transaction of writes only.
DBAddStep(t) ==
    /\ t \in DOMAIN calls
    /\ calls[t].pc = "add"
    /\ LET c == calls[t]
           indexName == Head(c.rest)
           idx == get(items, indexName).idx
           batch == Add(idx, c.itemID, c.itemVec)
       IN  IF batch.err # ""
           THEN /\ calls' = [calls EXCEPT ![t] = Done(t, batch.err)]
                /\ UNCHANGED <<kv, added>>
           ELSE \E commit \in BOOLEAN :
                IF ~commit
                THEN /\ calls' = [calls EXCEPT ![t] = Done(t, "storage")]
                     /\ UNCHANGED <<kv, added>>
                ELSE /\ kv' = StorageAdd(kv, batch.val)
                     /\ added' = Record(added, idx, c.itemID, c.itemVec)
                     /\ calls' = [calls EXCEPT ![t] =
                            NextTurn([c EXCEPT !.committed =
                                         Append(c.committed, indexName)])]
    /\ UNCHANGED <<handles, created, last, items, dbOpen, mu>>

\* idx.get in the loop of DB.Get by goroutine t, one read of the store at a
\* time: getEmbeddingsFromBuckets reads the ids of the bucket of each sketch
\* (getBucketIDs) and the embedding of each id it has not yet (getEmbedding),
\* then Search ranks the candidates and the turn ends.
DBGetStep(t) ==
    /\ t \in DOMAIN calls
    /\ calls[t].pc = "buckets"
    /\ LET c == calls[t]
           indexName == Head(c.rest)
           l == get(items, indexName).idx
       IN  IF c.ids # <<>>
           THEN IF Head(c.ids) \in DOMAIN c.data
                THEN calls' = [calls EXCEPT ![t].ids = Tail(c.ids)]
                ELSE LET embed == getEmbedding(kv, l, Head(c.ids))
                     IN  calls' = [calls EXCEPT ![t] =
                             IF embed.err # "" THEN Done(t, embed.err)
                             ELSE [c EXCEPT
                                     !.ids = Tail(c.ids),
                                     !.data = (Head(c.ids) :> embed.val)
                                                  @@ c.data]]
           ELSE IF c.sks # <<>>
           THEN calls' = [calls EXCEPT
                             ![t].ids = getBucketIDs(kv, l, Head(c.sks)),
                             ![t].sks = Tail(c.sks)]
           ELSE \E found \in Search(c.itemVec, c.data, c.tn, c.k) :
                   calls' = [calls EXCEPT ![t] =
                       IF found.err # "" THEN Done(t, found.err)
                       ELSE NextTurn([c EXCEPT !.res =
                                (indexName :> found.val) @@ c.res])]
    /\ UNCHANGED <<kv, handles, added, created, last, items, dbOpen, mu>>

\* The steps of the call of goroutine t once begun.
ThreadStep(t) ==
    \/ DBRLock(t)
    \/ DBLookup(t)
    \/ DBAddStep(t)
    \/ DBGetStep(t)

NextDB ==
    \/ \E configs \in DBConfigs : DBNew(configs)
    \/ \E t \in Threads, c \in DBAddCalls : DBAddStart(t, c[1], c[2], c[3])
    \/ \E t \in Threads, c \in DBGetCalls :
          DBGetStart(t, c[1], c[2], c[3], c[4])
    \/ \E t \in Threads : DBRLock(t)
    \/ \E t \in Threads : DBLookup(t)
    \/ \E t \in Threads : DBAddStep(t)
    \/ \E t \in Threads : DBGetStep(t)

SpecDB == Init /\ [][NextDB]_vars

\* The calls of the specification of progress: DBConfig.LSH passed to
\* vectoria.New, and the arguments of DB.Add and DB.Get, among them a vector
\* of the wrong length and an index that is not registered.
FairConfigs == {<<LSHConfig(NameA, 1, 1, 1)>>}

FairAddCalls == {<<IdX, <<1>>, <<>>>>, <<IdX, <<1, 0>>, <<NameA>>>>}

FairGetCalls == {<<<<1>>, 0, 0, <<NameA, NameB>>>>}

NextDBFair ==
    \/ \E configs \in FairConfigs : DBNew(configs)
    \/ \E t \in Threads, c \in FairAddCalls :
          DBAddStart(t, c[1], c[2], c[3])
    \/ \E t \in Threads, c \in FairGetCalls :
          DBGetStart(t, c[1], c[2], c[3], c[4])
    \/ \E t \in Threads : DBRLock(t)
    \/ \E t \in Threads : DBLookup(t)
    \/ \E t \in Threads : DBAddStep(t)
    \/ \E t \in Threads : DBGetStep(t)

\* The facade with every KV operation and every step of a goroutine's own
\* code terminating: a goroutine that can take a step eventually takes one.
SpecDBFair ==
    Init /\ [][NextDBFair]_vars /\ \A t \in Threads : WF_vars(ThreadStep(t))

----------------------------------------------------------------------------
(* lsh.New called by several goroutines on one store, one transaction of   *)
(* the store at a time: the KeyExists of indexExists, then either the Gets *)
(* of getStoredConfig or the draw of the hyperplanes and the Add of        *)
(* storeConfig.                                                            *)

\* indexName, numRounds, numHyperPlanes, spaceDim the goroutines pass
ConcurrentNewCalls == {<<NameA, 0, 0, 0>>, <<NameA, 2, 1, 2>>}

\* lsh.New by goroutine t, up to its first access to the store: l is the
\* *LSH under construction.
LSHNewStart(t, indexName, numRounds, numHyperPlanes, spaceDim) ==
    /\ Begins(t)
    /\ calls' = (t :> [op |-> "New", pc |-> "indexExists",
                       indexName |-> indexName, numRounds |-> numRounds,
                       numHyperPlanes |-> numHyperPlanes,
                       spaceDim |-> spaceDim, err |-> "",
                       l |-> LSH(indexName, 0, 0, 0, <<>>)]) @@ calls
    /\ UNCHANGED <<kv, handles, added, created, last, items, dbOpen, mu>>

\* l.indexExists() by goroutine t; when the index is not there, also
\* setHyperParams and the loop of simhash.New, which touch no shared state.
LSHNewIndexExists(t) ==
    /\ t \in DOMAIN calls
    /\ calls[t].pc = "indexExists"
    /\ LET c == calls[t]
       IN  IF indexExists(kv, c.indexName)
           THEN calls' = [calls EXCEPT ![t].pc = "getNumRounds"]
           ELSE \E built \in NewFresh(c.indexName, c.numRounds,
                                      c.numHyperPlanes, c.spaceDim) :
                   calls' = [calls EXCEPT ![t] =
                       IF built.err # ""
                       THEN [c EXCEPT !.pc = "done", !.err = built.err]
                       ELSE [c EXCEPT !.pc = "storeConfig",
                                      !.l = built.val]]
    /\ UNCHANGED <<kv, handles, added, created, last, items, dbOpen, mu>>

\* l.getStoredConfig() by goroutine t, one kv.Get at a time: num_rounds,
\* num_hyperplanes, space_dim, then the matrix of each round.
LSHNewGetStoredConfig(t) ==
    /\ t \in DOMAIN calls
    /\ calls[t].pc \in {"getNumRounds", "getNumHyperPlanes", "getSpaceDim",
                        "getHyperPlanes"}
    /\ LET c == calls[t]
           failed(e) == [c EXCEPT !.pc = "done", !.err = e]
       IN  IF c.pc = "getNumRounds"
           THEN LET got == StorageGet(kv, getNumRoundsKey(c.indexName))
                IN  /\ calls' = [calls EXCEPT ![t] =
                          IF got.err # "" THEN failed(got.err)
                          ELSE [c EXCEPT !.pc = "getNumHyperPlanes",
                                         !.l.numRounds = Uint32(got.val)]]
                    /\ UNCHANGED handles
           ELSE IF c.pc = "getNumHyperPlanes"
           THEN LET got == StorageGet(kv, getNumHyperPlanesKey(c.indexName))
                IN  /\ calls' = [calls EXCEPT ![t] =
                          IF got.err # "" THEN failed(got.err)
                          ELSE [c EXCEPT !.pc = "getSpaceDim",
                                         !.l.numHyperPlanes = Uint32(got.val)]]
                    /\ UNCHANGED handles
           ELSE IF c.pc = "getSpaceDim"
           THEN LET got == StorageGet(kv, getSpaceDimKey(c.indexName))
                IN  /\ calls' = [calls EXCEPT ![t] =
                          IF got.err # "" THEN failed(got.err)
                          ELSE [c EXCEPT !.pc = "getHyperPlanes",
                                         !.l.spaceDim = Uint32(got.val)]]
                    /\ UNCHANGED handles
           ELSE IF Len(c.l.hashes) >= c.l.numRounds
           THEN /\ KeepHandle(c.l)
                /\ calls' = [calls EXCEPT ![t].pc = "done"]
                /\ handles' = handles \cup {c.l}
           ELSE LET got == LoadHashes(kv, c.indexName, Len(c.l.hashes),
                                      Len(c.l.hashes) + 1, c.l.spaceDim)
                IN  /\ calls' = [calls EXCEPT ![t] =
                          IF got.err # "" THEN failed(got.err)
                          ELSE [c EXCEPT !.l.hashes = @ \o got.val]]
                    /\ UNCHANGED handles
    /\ UNCHANGED <<kv, added, created, last, items, dbOpen, mu>>

\* l.storeConfig() by goroutine t: its kv.Add, one transaction, which may
\* fail and then writes nothing.
LSHNewStoreConfig(t) ==
    /\ t \in DOMAIN calls
    /\ calls[t].pc = "storeConfig"
    /\ LET c == calls[t]
       IN  \E commit \in BOOLEAN :
               IF ~commit
               THEN /\ calls' = [calls EXCEPT ![t].pc = "done",
                                              ![t].err = "storage"]
                    /\ UNCHANGED <<kv, handles, created>>
               ELSE /\ KeepHandle(c.l)
                    /\ kv' = StorageAdd(kv, storeConfig(c.l))
                    /\ handles' = handles \cup {c.l}
                    /\ created' = (c.indexName :> c.l) @@ created
                    /\ calls' = [calls EXCEPT ![t].pc = "done"]
    /\ UNCHANGED <<added, last, items, dbOpen, mu>>

NextNew ==
    \/ \E t \in Threads, c \in ConcurrentNewCalls :
          LSHNewStart(t, c[1], c[2], c[3], c[4])
    \/ \E t \in Threads : LSHNewIndexExists(t)
    \/ \E t \in Threads : LSHNewGetStoredConfig(t)
    \/ \E t \in Threads : LSHNewStoreConfig(t)

SpecNew == Init /\ [][NextNew]_vars

----------------------------------------------------------------------------
(* The functions of packages semantic and simhash called on their own:     *)
(* cosineSim, Semantic.Search and SimHash.Sketch, with arguments no index  *)
(* need have produced.                                                     *)

\* vecA, vecB of cosineSim, queryVec of Search, embedding of Sketch
FnVectors ==
    {<<>>, <<1>>, <<0, 0>>, <<1, 0>>, <<0, 1>>, <<1, 1>>, <<0 - 1, 1>>}

\* normA, normB of cosineSim, as squared norms
FnNorms == {0, 1, 2}

\* candidates of Search: the maps from up to two of three ids to vectors,
\* and from the three ids to vectors of two coordinates
FnIDs == {IdX, IdY, <<122>>}

FnCandidates ==
    UNION {[ids -> {<<>>, <<1>>, <<0, 0>>, <<1, 0>>, <<0, 1>>, <<1, 1>>}] :
              ids \in {b \in SUBSET FnIDs : Cardinality(b) <= 2}}
    \cup [FnIDs -> {<<1, 0>>, <<0, 1>>, <<1, 1>>}]

\* SimHash.Hyperplanes: one or two rows of one or two coordinates
FnHyperplanes ==
    UNION {[1 .. h -> [1 .. d -> {0 - 1, 0, 1}]] :
              h \in 1 .. 2, d \in 1 .. 2}

\* cosineSim(vecA, vecB, normA, normB)
CallCosineSim(vecA, vecB, normA, normB) ==
    /\ last = NoOp
    /\ last' = [op |-> "cosineSim", vecA |-> vecA, vecB |-> vecB,
                normA |-> normA, normB |-> normB,
                res |-> cosineSim(vecA, vecB, normA, normB)]
    /\ UNCHANGED <<kv, handles, added, created, items, dbOpen, calls, mu>>

\* Semantic.Search(queryVec, candidates, threshold, k)
CallSearch(queryVec, candidates, tn, k) ==
    /\ last = NoOp
    /\ \E res \in Search(queryVec, candidates, tn, k) :
          last' = [op |-> "Search", queryVec |-> queryVec,
                   candidates |-> candidates, tn |-> tn, k |-> k,
                   err |-> res.err, ids |-> res.val]
    /\ UNCHANGED <<kv, handles, added, created, items, dbOpen, calls, mu>>

\* SimHash{Hyperplanes}.Sketch(embedding)
CallSketch(Hyperplanes, embedding) ==
    /\ last = NoOp
    /\ last' = [op |-> "Sketch", Hyperplanes |-> Hyperplanes,
                embedding |-> embedding,
                res |-> Sketch(Hyperplanes, embedding)]
    /\ UNCHANGED <<kv, handles, added, created, items, dbOpen, calls, mu>>

NextFunctions ==
    \/ \E vecA \in FnVectors, vecB \in FnVectors,
          normA \in FnNorms, normB \in FnNorms :
          CallCosineSim(vecA, vecB, normA, normB)
    \/ \E queryVec \in FnVectors, candidates \in FnCandidates,
          tn \in Thresholds, k \in Ks :
          CallSearch(queryVec, candidates, tn, k)
    \/ \E Hyperplanes \in FnHyperplanes, embedding \in FnVectors :
          CallSketch(Hyperplanes, embedding)
    \/ Return

SpecFunctions == Init /\ [][NextFunctions]_vars

----------------------------------------------------------------------------
(* Properties                                                              *)

\* The elements of a sequence.
Range(seq) == {seq[i] : i \in 1 .. Len(seq)}

\* cosine(a, b) as the specification defines it: -1 when either norm is
\* zero, else dot(a, b) / (|a| |b|).
SpecCosine(a, b) ==
    IF SumProducts(a, a) = 0 \/ SumProducts(b, b) = 0 THEN Real(0 - 1, 1)
    ELSE Real(SumProducts(a, b), SumProducts(a, a) * SumProducts(b, b))

\* The vector stored under <<index name, id>>: the one last committed.
CurrentVec(a) == added[a][Len(added[a])].embedding

\* X is the only index created in the store.
OnlyIndex(X) == DOMAIN created = {X}

\* C1 (no false positives): every id a successful Get(q, t, k) returns has
\* been added to that index, and the cosine of q and the vector now stored
\* under it is at least t.
C1_NoFalsePositives ==
    (last.op = "Get" /\ last.err = "") =>
        \A i \in 1 .. Len(last.ids) :
            LET a == <<last.l.indexName, last.ids[i]>>
            IN  /\ a \in DOMAIN added
                /\ ~RealLess(SpecCosine(last.queryVec, CurrentVec(a)),
                             ThresholdReal(last.tn))

\* A Get with a positive threshold returned one item and left out another
\* item of the index.
C1_Witness ==
    /\ last.op = "Get" /\ last.err = ""
    /\ last.tn > 0
    /\ Len(last.ids) = 1
    /\ \E a \in DOMAIN added :
          a[1] = last.l.indexName /\ a[2] \notin Range(last.ids)

C3_Entries(l, id, embedding) ==
    (getEmbeddingKey(l.indexName, id) :> encodeFloat64Slice(embedding))
    @@ [k \in {getSketchKey(l.indexName, getSketches(l, embedding).val[r], id) :
                  r \in 1 .. l.numRounds} |-> id]

\* C3 (Add is atomic): a step of LSH.Add that succeeds leaves every entry of
\* the call in the store and changes no other key; one that fails, at its
\* checks or at the commit, leaves the store as it was.
C3_AddAtomic ==
    [][ (last.op = "none" /\ last'.op = "Add") =>
            IF last'.err = ""
            THEN LET entries == C3_Entries(last'.l, last'.id, last'.embedding)
                 IN  /\ \A k \in DOMAIN entries :
                            k \in DOMAIN kv' /\ kv'[k] = entries[k]
                     /\ \A k \in DOMAIN kv' \ DOMAIN entries :
                            k \in DOMAIN kv /\ kv'[k] = kv[k]
            ELSE kv' = kv ]_vars

\* An Add on an index of two rounds whose sketches differ has committed.
C3_Witness ==
    /\ last.op = "Add" /\ last.err = ""
    /\ last.l.numRounds = 2
    /\ getSketches(last.l, last.embedding).val[1]
           # getSketches(last.l, last.embedding).val[2]

\* The goroutines have all called DB.Add on index X alone, with a non-empty
\* id and a vector of length space_dim, and every call has returned.
C4_AllReturned(X) ==
    /\ dbOpen /\ X \in DOMAIN items
    /\ DOMAIN calls = Threads
    /\ \A t \in Threads :
          /\ calls[t].pc = "done"
          /\ calls[t].indexNames = <<X>>
          /\ Len(calls[t].itemID) > 0
          /\ Len(calls[t].itemVec) = items[X].spaceDim

\* The goroutines whose Add on X was committed by the store.
C4_Committed(X) == {t \in Threads : calls[t].committed = <<X>>}

\* The store after the Adds of the goroutines of order, one after the other,
\* on store.
RECURSIVE C4_Serial(_, _, _)
C4_Serial(X, order, store) ==
    IF order = <<>> THEN store
    ELSE C4_Serial(X, Tail(order),
                   C3_Entries(items[X], calls[Head(order)].itemID,
                              calls[Head(order)].itemVec) @@ store)

\* Every call the store did not fail has returned success, and the store is
\* the one some serial order of the committed calls leaves.
C4_SuccessAndSerial(X) ==
    /\ \A t \in Threads : calls[t].err # "storage" => calls[t].err = ""
    /\ \E order \in Orders(C4_Committed(X)) :
          kv = C4_Serial(X, order, last.kv)

\* DB.Get(vec, 0, 0, X) succeeds with a list for X that contains id.
C4_Retrieved(X, id, vec) ==
    \A res \in DBGet(items, kv, vec, 0, 0, <<X>>) :
        res.err = "" /\ id \in Range(res.val[X])

\* C4 to the letter (race-freedom of Add): when the goroutines have each called
\* DB.Add on the same index with valid arguments, every call has succeeded
\* unless the store failed its commit, the store is the one a serial order
\* of the committed calls leaves, and Get of each inserted vector returns
\* its id.
C4_RaceFreeAdd ==
    \A X \in DOMAIN items :
        C4_AllReturned(X) =>
            /\ C4_SuccessAndSerial(X)
            /\ \A t \in C4_Committed(X) :
                  C4_Retrieved(X, calls[t].itemID, calls[t].itemVec)

\* C4 (race-freedom of Add) for the vectors Get can return: the same, with
\* Get returning the id of each inserted vector that has a norm above
\* EPSILON and is still the one stored under its id.
C4_RaceFreeAddStored ==
    \A X \in DOMAIN items :
        C4_AllReturned(X) =>
            /\ C4_SuccessAndSerial(X)
            /\ \A t \in C4_Committed(X) :
                  (/\ SumProducts(calls[t].itemVec, calls[t].itemVec) > 0
                   /\ CurrentVec(<<X, calls[t].itemID>>) = calls[t].itemVec)
                      => C4_Retrieved(X, calls[t].itemID, calls[t].itemVec)

\* No key of another registered index lies under the keys of index X.
C4_Apart(X) ==
    \A m \in DOMAIN items :
        ~HasPrefix(getIndexKey(m), getIndexKey(X) \o S_slash)

\* C4 for those vectors, on an index under whose keys no other index has
\* its keys.
C4_RaceFreeAddApart ==
    \A X \in DOMAIN items :
        (C4_AllReturned(X) /\ C4_Apart(X)) =>
            /\ C4_SuccessAndSerial(X)
            /\ \A t \in C4_Committed(X) :
                  (/\ SumProducts(calls[t].itemVec, calls[t].itemVec) > 0
                   /\ CurrentVec(<<X, calls[t].itemID>>) = calls[t].itemVec)
                      => C4_Retrieved(X, calls[t].itemID, calls[t].itemVec)

\* All goroutines have added to the index "a", two of them different ids
\* with non-zero vectors, and every call was committed.
C4_Witness ==
    /\ C4_AllReturned(NameA)
    /\ C4_Committed(NameA) = Threads
    /\ calls[1].itemID # calls[2].itemID
    /\ \A t \in Threads :
          SumProducts(calls[t].itemVec, calls[t].itemVec) > 0

\* C5 (persistence wins): a step of lsh.New that finds the index changes
\* nothing in the store, and the index it returns reports through Info the
\* num_rounds, num_hyperplanes and space_dim the store holds, whatever the
\* arguments of the call.
C5_PersistenceWins ==
    [][ (last.op = "none" /\ last'.op = "New" /\ last'.existed
            /\ last'.err = "") =>
            /\ kv' = kv
            /\ Info(last'.l) =
                 [numRounds |-> Uint32(kv[getNumRoundsKey(last'.indexName)]),
                  numHyperPlanes |->
                      Uint32(kv[getNumHyperPlanesKey(last'.indexName)]),
                  spaceDim |-> Uint32(kv[getSpaceDimKey(last'.indexName)])]
      ]_vars

\* lsh.New(name, 0, 0, 0) has loaded an index stored with two rounds.
C5_Witness ==
    /\ last.op = "New" /\ last.existed /\ last.err = ""
    /\ last.numRounds = 0 /\ last.numHyperPlanes = 0 /\ last.spaceDim = 0
    /\ last.l.numRounds = 2 /\ last.l.spaceDim = 2

\* C6 (sketch stability across reload): an index that lsh.New created and
\* that a later lsh.New loads from the store has the number of rounds it was
\* created with and computes, for every vector of length space_dim, the
\* sketches of the index as created.
C6_SketchStability ==
    (last.op = "New" /\ last.existed /\ last.indexName \in DOMAIN created) =>
        LET orig == created[last.indexName]
        IN  /\ last.err = ""
            /\ last.l.numRounds = orig.numRounds
            /\ \A v \in Vectors :
                  Len(v) = orig.spaceDim =>
                      getSketches(last.l, v) = getSketches(orig, v)

\* The config keys of index X, for numRounds rounds.
ConfigKeys(X, numRounds) ==
    {getIndexKey(X), getNumRoundsKey(X), getNumHyperPlanesKey(X),
     getSpaceDimKey(X)}
        \cup {getHyperPlanesKey(X, r) : r \in 0 .. numRounds - 1}

\* The store holds, for index X, what lsh.New wrote when it created X.
ConfigIntact(X) ==
    \A k \in ConfigKeys(X, created[X].numRounds) :
        k \in DOMAIN kv /\ kv[k] = storeConfig(created[X])[k]

\* C6 where the config of the index is as written at creation: the reload
\* succeeds with the same rounds and the same sketches.
C6_SketchStabilityIntact ==
    (last.op = "New" /\ last.existed /\ last.indexName \in DOMAIN created
        /\ ConfigIntact(last.indexName)) =>
        LET orig == created[last.indexName]
        IN  /\ last.err = ""
            /\ last.l.numRounds = orig.numRounds
            /\ \A v \in Vectors :
                  Len(v) = orig.spaceDim =>
                      getSketches(last.l, v) = getSketches(orig, v)

\* C7 (stored-item invariant): for every id stored in an index, with the
\* vector last committed for it, the store holds under every round the
\* membership entry of the round's sketch with the id as value, and the
\* embedding entry, which decodes to that vector of length space_dim.
C7_StoredItem ==
    \A a \in DOMAIN added :
        LET e == added[a][Len(added[a])]
            embKey == getEmbeddingKey(a[1], a[2])
        IN  /\ \A r \in 1 .. e.l.numRounds :
                  LET k == getSketchKey(a[1],
                               getSketches(e.l, e.embedding).val[r], a[2])
                  IN  k \in DOMAIN kv /\ kv[k] = a[2]
            /\ embKey \in DOMAIN kv
            /\ decodeFloat64Slice(kv[embKey]) = Ok(e.embedding)
            /\ Len(e.embedding) = e.l.spaceDim

\* C8 (config existence and immutability): every config key of an index
\* that lsh.New created exists and holds the value written at creation, and
\* the marker key of a name exists only along with its other config keys.
C8_ConfigImmutable ==
    /\ \A X \in DOMAIN created : ConfigIntact(X)
    /\ \A X \in IndexNames :
          getIndexKey(X) \in DOMAIN kv =>
              {getNumRoundsKey(X), getNumHyperPlanesKey(X),
               getSpaceDimKey(X)} \subseteq DOMAIN kv

\* The similarity, as the specification defines it, of the query of the
\* last Get and the vector stored under id in the index queried.
LastSim(id) ==
    SpecCosine(last.queryVec, CurrentVec(<<last.l.indexName, id>>))

\* C9 (result ordering): in the list a successful Get returns, an id that
\* precedes another has a similarity to the query at least as great.
C9_ResultOrdering ==
    (last.op = "Get" /\ last.err = "") =>
        \A i, j \in 1 .. Len(last.ids) :
            i < j => ~RealLess(LastSim(last.ids[i]), LastSim(last.ids[j]))

\* A Get returned two ids, the first strictly more similar than the second.
C9_Witness ==
    /\ last.op = "Get" /\ last.err = ""
    /\ Len(last.ids) = 2
    /\ RealLess(LastSim(last.ids[2]), LastSim(last.ids[1]))

\* The candidates of the last Get: the ids with a membership entry under a
\* sketch of the query.
LastCandidates ==
    {id \in ItemIDs :
        \E r \in 1 .. last.l.numRounds :
            getSketchKey(last.l.indexName,
                         getSketches(last.l, last.queryVec).val[r], id)
                \in DOMAIN kv}

\* The number of candidates of the last Get whose similarity is at least
\* its threshold.
LastPassing ==
    Cardinality({id \in LastCandidates :
                    ~RealLess(LastSim(id), ThresholdReal(last.tn))})

\* C10 (result size): a successful Get returns all n candidates of
\* similarity at least the threshold when k = 0 and min(k, n) of them when
\* k > 0; a Get with a query of length space_dim and a threshold in [0, 1]
\* on an index with no items succeeds with an empty list.
C10_ResultSize ==
    last.op = "Get" =>
        /\ last.err = "" =>
              Len(last.ids) =
                  IF last.k = 0 \/ last.k > LastPassing THEN LastPassing
                  ELSE last.k
        /\ (/\ Len(last.queryVec) = last.l.spaceDim
            /\ last.tn \in ValidThresholds
            /\ \A a \in DOMAIN added : a[1] # last.l.indexName)
              => (last.err = "" /\ last.ids = <<>>)

\* C10 where no marker key of another index lies under the keys of the
\* index queried.
C10_ResultSizeApart ==
    (last.op = "Get"
     /\ \A m \in IndexNames :
            getIndexKey(m) \in DOMAIN kv =>
                ~HasPrefix(getIndexKey(m),
                           getIndexKey(last.l.indexName) \o S_slash)) =>
        /\ last.err = "" =>
              Len(last.ids) =
                  IF last.k = 0 \/ last.k > LastPassing THEN LastPassing
                  ELSE last.k
        /\ (/\ Len(last.queryVec) = last.l.spaceDim
            /\ last.tn \in ValidThresholds
            /\ \A a \in DOMAIN added : a[1] # last.l.indexName)
              => (last.err = "" /\ last.ids = <<>>)

\* A Get with k = 1 returned one id of two passing candidates.
C10_Witness ==
    /\ last.op = "Get" /\ last.err = ""
    /\ last.k = 1 /\ Len(last.ids) = 1
    /\ LastPassing = 2

\* The greater of two numbers.
Max(a, b) == IF a < b THEN b ELSE a

\* C11 (parameter clamping): an lsh.New that creates the index returns one
\* whose Info reports num_rounds = max(arg, 1), num_hyperplanes =
\* max(arg, 1) and space_dim = max(arg, 2).
C11_ParameterClamping ==
    (last.op = "New" /\ ~last.existed /\ last.err = "") =>
        Info(last.l) =
            [numRounds |-> Max(last.numRounds, MIN_NUM_ROUNDS),
             numHyperPlanes |-> Max(last.numHyperPlanes, MIN_NUM_HYPERPLANES),
             spaceDim |-> Max(last.spaceDim, MIN_SPACE_DIM)]

\* C17 (Get validation): LSH.Get fails with the dimension error and no ids
\* when the query's length differs from space_dim; with a query of length
\* space_dim it fails with the threshold error and no ids when the
\* threshold is below 0 or above 1, and fails with neither error when the
\* threshold is 0 or 1.
C17_GetValidation ==
    last.op = "Get" =>
        IF Len(last.queryVec) # last.l.spaceDim
        THEN last.err = "embeddingLen" /\ last.ids = <<>>
        ELSE IF last.tn < 0 \/ last.tn > ThresholdDen
        THEN last.err = "invalidThreshold" /\ last.ids = <<>>
        ELSE last.err \notin {"embeddingLen", "invalidThreshold"}

\* A Get with a query of length space_dim and a threshold above 1 has
\* failed.
C17_Witness ==
    /\ last.op = "Get" /\ last.err = "invalidThreshold"
    /\ Len(last.queryVec) = last.l.spaceDim
    /\ last.tn > ThresholdDen

\* C18 (Add validation): LSH.Add fails with the dimension error when the
\* vector's length differs from space_dim; with a vector of length
\* space_dim it fails with the id error when the id is empty; a failing
\* Add leaves the store as it was.
C18_AddValidation ==
    [][ (last.op = "none" /\ last'.op = "Add") =>
            /\ Len(last'.embedding) # last'.l.spaceDim
                   => last'.err = "embeddingLen"
            /\ (Len(last'.embedding) = last'.l.spaceDim /\ last'.id = <<>>)
                   => last'.err = "invalidIDLen"
            /\ last'.err # "" => kv' = kv ]_vars

\* An Add of a vector of length space_dim under the empty id has failed on
\* a store that holds an item.
C18_Witness ==
    /\ last.op = "Add" /\ last.err = "invalidIDLen"
    /\ Len(last.embedding) = last.l.spaceDim
    /\ DOMAIN added # {}

\* C12 (duplicate index names): a New whose configs repeat a name fails, and
\* after a failure with IndexAlreadyExists the registry holds none of the
\* indexes the call added and no DB is returned.
C12_DuplicateRollback ==
    last.op = "DBNew" =>
        /\ (\E i, j \in 1 .. Len(last.configs) :
               /\ i < j
               /\ last.configs[i].IndexName # <<>>
               /\ last.configs[i].IndexName = last.configs[j].IndexName)
              => last.err # ""
        /\ last.err = "indexAlreadyExists" =>
              (last.items = <<>> /\ ~dbOpen)

\* C13 (Add on an empty registry): a DB.Add that begins while the registry
\* is empty returns DBHasNoIndex at once, with or without index names, and
\* neither that step nor the call writes to the store.
C13_EmptyRegistry ==
    /\ [][ \A t \in Threads :
             (/\ t \notin DOMAIN calls /\ t \in DOMAIN calls'
              /\ calls'[t].op = "Add" /\ DOMAIN items = {})
                => (/\ calls'[t].pc = "done"
                    /\ calls'[t].err = "dbHasNoIndex"
                    /\ kv' = kv) ]_vars
    /\ [](\A t \in DOMAIN calls :
             calls[t].err = "dbHasNoIndex" =>
                 (calls[t].pc = "done" /\ calls[t].committed = <<>>))

\* Two Adds on a DB without indexes have failed, one that named an index
\* and one that named none.
C13_Witness ==
    /\ dbOpen /\ DOMAIN items = {}
    /\ \E t1, t2 \in DOMAIN calls :
          /\ calls[t1].err = "dbHasNoIndex" /\ calls[t1].indexNames = <<>>
          /\ calls[t2].err = "dbHasNoIndex" /\ calls[t2].indexNames # <<>>

\* The position in names of the first name absent from the registry, or 0.
FirstAbsent(names) ==
    IF \A i \in 1 .. Len(names) : names[i] \in DOMAIN items THEN 0
    ELSE CHOOSE i \in 1 .. Len(names) :
            /\ names[i] \notin DOMAIN items
            /\ \A j \in 1 .. i - 1 : names[j] \in DOMAIN items

\* C14 (unknown index names): on a DB with an index, a DB.Add or DB.Get that
\* names an absent index fails, a Get returning no map; the error is
\* IndexDoesNotExist when the call has come to that name, every index named
\* before it having done its part.
C14_UnknownIndex ==
    \A t \in DOMAIN calls :
        LET c == calls[t]
            p == FirstAbsent(c.indexNames)
        IN  (c.pc = "done" /\ DOMAIN items # {} /\ p > 0) =>
                /\ c.err # ""
                /\ c.res = <<>>
                /\ c.rest = SubSeq(c.indexNames, p, Len(c.indexNames))
                      => c.err = "indexDoesNotExist"

\* An Add and a Get that named the index "a" and then an absent index have
\* both failed at the absent one, the Add after its commit on "a".
C14_Witness ==
    \E t1, t2 \in DOMAIN calls :
        /\ calls[t1].op = "Add" /\ calls[t1].err = "indexDoesNotExist"
        /\ calls[t1].committed = <<NameA>>
        /\ calls[t2].op = "Get" /\ calls[t2].err = "indexDoesNotExist"
        /\ Len(calls[t2].rest) = 1 /\ Len(calls[t2].indexNames) = 2

\* The keys LSH.Add has written for the call c on the indexes it committed.
Written(c) ==
    UNION {DOMAIN C3_Entries(items[n], c.itemID, c.itemVec) :
              n \in Range(c.committed)}

\* Index n holds the item of the call c: its membership entries, and its
\* embedding entry with the vector of c or of another call of the same id.
HoldsItem(n, c) ==
    LET e == C3_Entries(items[n], c.itemID, c.itemVec)
        embKey == getEmbeddingKey(n, c.itemID)
    IN  /\ DOMAIN e \subseteq DOMAIN kv
        /\ \A k \in DOMAIN e \ {embKey} : kv[k] = e[k]
        /\ \/ kv[embKey] = e[embKey]
           \/ \E t \in DOMAIN calls :
                 /\ calls[t].op = "Add" /\ calls[t].itemID = c.itemID
                 /\ n \in Range(calls[t].committed)
                 /\ kv[embKey] = encodeFloat64Slice(calls[t].itemVec)

\* The key k is one of index n: its marker, or a key under it.
KeyOfIndex(k, n) ==
    k = getIndexKey(n) \/ HasPrefix(k, getIndexKey(n) \o S_slash)

\* A key of index m lies under the keys of index n.
Under(m, n) == HasPrefix(getIndexKey(m), getIndexKey(n) \o S_slash)

\* A failed DB.Add has processed its indexes in list order up to the first
\* that is absent or whose Add failed: the indexes before it hold the item,
\* and the call wrote no key of the failing index or of an index after it
\* (of those whose keys lie under no index before it, when disjoint).
PartialFailure(disjoint) ==
    \A t \in DOMAIN calls :
        LET c == calls[t]
        IN  (c.op = "Add" /\ c.pc = "done"
             /\ c.err \notin {"", "dbHasNoIndex"}) =>
                /\ c.rest # <<>>
                /\ c.indexNames # <<>> => c.committed \o c.rest = c.indexNames
                /\ \A n \in Range(c.committed) :
                      n \in DOMAIN items /\ HoldsItem(n, c)
                /\ Head(c.rest) \notin DOMAIN items
                      <=> c.err = "indexDoesNotExist"
                /\ \A m \in (Range(c.rest) \cap DOMAIN items)
                                \ Range(c.committed) :
                      (disjoint =>
                          \A n \in Range(c.committed) : ~Under(m, n))
                          => \A k \in Written(c) : ~KeyOfIndex(k, m)

\* C15 (partial failure of facade Add): a failed Add has stopped at the
\* first name that is absent or whose index Add fails; the indexes before
\* it keep the item, and no key of the failing index or of an index after
\* it has been written by the call.
C15_PartialFailure == PartialFailure(FALSE)

\* C15 for the indexes whose keys do not lie under the keys of an index the
\* call committed on.
C15_PartialFailureDisjoint == PartialFailure(TRUE)

\* An Add without names on the indexes "u1" and "a" was committed on one and
\* failed on the other.
C15_DisjointWitness ==
    \E t \in DOMAIN calls :
        /\ calls[t].op = "Add" /\ calls[t].err = "storage"
        /\ Len(calls[t].committed) = 1 /\ Len(calls[t].rest) = 1
        /\ DOMAIN items = {NameU, NameA}

\* C16 (fan-out with no index names): a successful DB.Add without names has
\* been committed on every registered index, each of which holds the item;
\* the map of a successful DB.Get has as keys the registered names when no
\* name was given and the names given otherwise, and, when no Add was
\* committed since the call began, maps each to a result of that index's
\* own Get.
C16_FanOut ==
    \A t \in DOMAIN calls :
        LET c == calls[t]
        IN  (c.pc = "done" /\ c.err = "") =>
                IF c.op = "Add"
                THEN c.indexNames = <<>> =>
                        /\ Range(c.committed) = DOMAIN items
                        /\ \A n \in DOMAIN items : HoldsItem(n, c)
                ELSE /\ DOMAIN c.res = IF c.indexNames = <<>>
                                       THEN DOMAIN items
                                       ELSE Range(c.indexNames)
                     /\ NumAdded(added) = c.version =>
                           \A n \in DOMAIN c.res :
                               Ok(c.res[n]) \in Get(kv, items[n], c.itemVec,
                                                   c.tn, c.k)

\* On a DB with two indexes an Add without names has succeeded, and a Get
\* without names that began after it has returned the item under both.
C16_Witness ==
    /\ Cardinality(DOMAIN items) = 2
    /\ \E t1, t2 \in DOMAIN calls :
          /\ calls[t1].op = "Add" /\ calls[t1].pc = "done"
          /\ calls[t1].err = "" /\ calls[t1].indexNames = <<>>
          /\ calls[t2].op = "Get" /\ calls[t2].pc = "done"
          /\ calls[t2].err = "" /\ calls[t2].indexNames = <<>>
          /\ calls[t2].version = NumAdded(added)
          /\ \A n \in DOMAIN items : calls[t2].res[n] = <<calls[t1].itemID>>

\* C19 (registry lock discipline): a step of a goroutine that reads the
\* registry map (the emptiness check and the enumeration at the start of
\* DB.Add, the enumeration at the start of a DB.Get without names, the
\* lookup by name in safeMap.get) is taken while the goroutine holds the
\* shared lock.
C19_LockDiscipline ==
    [][ \A t \in Threads :
          (\/ /\ t \notin DOMAIN calls /\ t \in DOMAIN calls'
              /\ (calls'[t].op = "Add" \/ calls'[t].indexNames = <<>>)
           \/ /\ t \in DOMAIN calls /\ t \in DOMAIN calls'
              /\ calls[t].pc = "get" /\ calls'[t].pc # "get")
            => (/\ t \in DOMAIN calls
                /\ calls[t].pc = "get"
                /\ mu.readerCount > 0 /\ ~mu.writer) ]_vars

\* The goroutines that hold the shared lock of the registry.
Readers == {t \in DOMAIN calls : calls[t].pc = "get"}

\* C20 (no indefinite blocking): every call of DB.Add or DB.Get that has
\* begun returns; a call that has not returned can always take its next
\* step, whatever the other calls do; and the lock of the registry is held
\* by the goroutines inside safeMap.get only, so that a call that has
\* returned, with or without an error, holds no lock.
C20_NoIndefiniteBlocking ==
    /\ \A t \in Threads :
          (t \in DOMAIN calls)
              ~> (t \in DOMAIN calls /\ calls[t].pc = "done")
    /\ [](\A t \in DOMAIN calls :
             calls[t].pc # "done" => ENABLED ThreadStep(t))
    /\ [](mu.readerCount = Cardinality(Readers) /\ ~mu.writer)

\* An Add and a Get are both inside safeMap.get, holding the shared lock
\* together.
C20_Witness ==
    /\ mu.readerCount = 2
    /\ \E t1, t2 \in Readers :
          calls[t1].op = "Add" /\ calls[t2].op = "Get"

\* The sketches of the query of the last Get, one per round.
LastSketches == getSketches(last.l, last.queryVec).val

\* The ids stored in the index of the last Get whose stored vector has, in
\* round r, the sketch the query has in round r.
SameSketchInRound(r) ==
    {a[2] : a \in {b \in DOMAIN added :
                      /\ b[1] = last.l.indexName
                      /\ getSketches(last.l, CurrentVec(b)).val[r]
                             = LastSketches[r]}}

\* C21 (buckets are per round): the ids a Get collects for round r of its
\* query, those getBucketIDs returns for the round's sketch, are the ids
\* whose stored vector has that sketch in round r.  Stated on a store whose
\* only index is the one queried and where each id was added once.
C21_BucketsPerRound ==
    (/\ last.op = "Get" /\ Len(last.queryVec) = last.l.spaceDim
     /\ OnlyIndex(last.l.indexName)
     /\ \A a \in DOMAIN added : Len(added[a]) = 1) =>
        \A r \in 1 .. last.l.numRounds :
            Range(getBucketIDs(kv, last.l, LastSketches[r]))
                = SameSketchInRound(r)

\* The sketch values of the indexes: the strings of one or two characters
\* over "0" and "1".
SketchValues == UNION {[1 .. n -> {48, 49}] : n \in 1 .. 2}

\* The membership entries of the store: index X, sketch s, id.
MembershipEntries ==
    {e \in (DOMAIN created) \X SketchValues \X (ItemIDs \ {<<>>}) :
        getSketchKey(e[1], e[2], e[3]) \in DOMAIN kv}

\* C22 (membership entries follow the current embedding): every membership
\* entry (X, s, id) of the store has s equal to the sketch, in some round of
\* X, of the vector stored under the embedding key of id in X; also after
\* an Add of the same id with another vector.
C22_MembershipCurrent ==
    \A e \in MembershipEntries :
        LET embed == getEmbedding(kv, created[e[1]], e[3])
        IN  /\ embed.err = ""
            /\ \E r \in 1 .. created[e[1]].numRounds :
                  Sketch(created[e[1]].hashes[r], embed.val) = Ok(e[2])

\* Every id the bucket scan of a Get has returned, and that the Get has yet
\* to look up, has an embedding entry in the index, and no Get has failed
\* with the store's not-found error.
NoDanglingMember ==
    \A t \in DOMAIN calls :
        calls[t].op = "Get" =>
            /\ calls[t].pc = "buckets" =>
                  \A id \in Range(calls[t].ids) :
                      getEmbeddingKey(Head(calls[t].rest), id) \in DOMAIN kv
            /\ calls[t].err # "KeyNotFound"

\* C23 (Get never meets a dangling bucket member): in every reachable
\* state, under every interleaving of the reads of a Get with concurrent
\* Adds, every id a bucket scan returns has an embedding entry in the
\* index, and Get never fails with the store's not-found error.
C23_NoDanglingMember == NoDanglingMember

\* C23 on a registry none of whose indexes has its keys under the keys of
\* another.
C23_NoDanglingMemberApart ==
    (\A m, n \in DOMAIN items : ~Under(m, n)) => NoDanglingMember

\* On the indexes "u1" and "a", a Get has returned an id although an Add
\* was committed between its reads of the store.
C23_ApartWitness ==
    /\ DOMAIN items = {NameU, NameA}
    /\ \E t \in DOMAIN calls :
          /\ calls[t].op = "Get" /\ calls[t].pc = "done"
          /\ calls[t].err = "" /\ calls[t].version < NumAdded(added)
          /\ \E n \in DOMAIN calls[t].res : calls[t].res[n] # <<>>

\* A step of LSH.Add on index X leaves index Y as it was: the keys of Y in
\* the store keep their values, and Get on Y has the results it had.
LeavesIndex(Y) ==
    /\ \A k \in DOMAIN kv : KeyOfIndex(k, Y) => kv'[k] = kv[k]
    /\ \A l \in handles :
          l.indexName = Y =>
              \A q \in Vectors : Get(kv', l, q, 0, 0) = Get(kv, l, q, 0, 0)

\* C24 (index isolation on the shared KV): a step of LSH.Add on index X
\* leaves every key of every other index Y of the store unchanged, and Get
\* on Y returns what it returned before.
C24_IndexIsolation ==
    [][ (last.op = "none" /\ last'.op = "Add") =>
            \A Y \in DOMAIN created \ {last'.l.indexName} :
                LeavesIndex(Y) ]_vars

\* C24 for the indexes Y whose keys do not lie under the keys of X.
C24_IndexIsolationApart ==
    [][ (last.op = "none" /\ last'.op = "Add") =>
            \A Y \in DOMAIN created \ {last'.l.indexName} :
                ~Under(Y, last'.l.indexName) => LeavesIndex(Y) ]_vars

\* An Add was committed on "a/embedding/x" while the index "a" held an
\* item.
C24_ApartWitness ==
    /\ last.op = "Add" /\ last.err = ""
    /\ last.l.indexName = NameB
    /\ \E a \in DOMAIN added : a[1] = NameA

\* The calls of lsh.New that have returned an index.
Returned == {t \in DOMAIN calls :
                calls[t].op = "New" /\ calls[t].pc = "done"
                    /\ calls[t].err = ""}

\* C25 (handles agree with the persisted hyperplanes): every index lsh.New
\* has returned for a name holds the hyperplanes the store holds under that
\* name, and two indexes returned for one name compute the same sketches;
\* also when the calls ran concurrently on the name before it existed.
C25_HandlesAgree ==
    /\ \A t \in Returned :
          LoadHashes(kv, calls[t].indexName, 0, calls[t].l.numRounds,
                     calls[t].l.spaceDim) = Ok(calls[t].l.hashes)
    /\ \A t, u \in Returned :
          calls[t].indexName = calls[u].indexName =>
              \A v \in Vectors :
                  getSketches(calls[t].l, v) = getSketches(calls[u].l, v)

\* C25 for calls that run one after the other: the index a step of lsh.New
\* returns holds the hyperplanes the store then holds under its name.
C25_HandlesAgreeSequential ==
    (last.op = "New" /\ last.err = "") =>
        LoadHashes(kv, last.indexName, 0, last.l.numRounds, last.l.spaceDim)
            = Ok(last.l.hashes)

\* The ids with a membership entry of index X under the sketch value s:
\* those some committed Add on X has stored with s as a sketch.
StoredUnder(X, s) ==
    {a[2] : a \in {b \in DOMAIN added :
                      /\ b[1] = X
                      /\ \E i \in 1 .. Len(added[b]) :
                            s \in Range(getSketches(added[b][i].l,
                                            added[b][i].embedding).val)}}

\* The scans of the last Get return the ids stored under their sketch
\* value, and nothing else.
ScanConfined ==
    \A r \in 1 .. Len(LastSketches) :
        Range(getBucketIDs(kv, last.l, LastSketches[r]))
            = StoredUnder(last.l.indexName, LastSketches[r])

\* C26 (bucket scan confined to one sketch value): the prefix scan Get
\* issues for a sketch s in index X returns the ids whose membership entry
\* of X is stored under s, and neither an id stored only under another
\* sketch value of X nor the value of a key that is no membership entry.
C26_ScanConfined ==
    (last.op = "Get" /\ Len(last.queryVec) = last.l.spaceDim) =>
        ScanConfined

\* C26 where no marker key of another index lies under the keys of the
\* index queried.
C26_ScanConfinedApart ==
    (/\ last.op = "Get" /\ Len(last.queryVec) = last.l.spaceDim
     /\ \A m \in IndexNames :
            getIndexKey(m) \in DOMAIN kv =>
                ~HasPrefix(getIndexKey(m),
                           getIndexKey(last.l.indexName) \o S_slash)) =>
        ScanConfined

\* A Get has scanned a bucket that holds an id while the index holds
\* another id under another sketch value only.
C26_ApartWitness ==
    /\ last.op = "Get" /\ Len(last.queryVec) = last.l.spaceDim
    /\ DOMAIN created = {NameA, NameU} \/ OnlyIndex(last.l.indexName)
    /\ \E r \in 1 .. Len(LastSketches) :
          /\ StoredUnder(last.l.indexName, LastSketches[r]) # {}
          /\ \E a \in DOMAIN added :
                /\ a[1] = last.l.indexName
                /\ a[2] \notin StoredUnder(last.l.indexName, LastSketches[r])

\* Some candidate of the last Search has a length other than the query's.
SomeMismatch ==
    \E id \in DOMAIN last.candidates :
        Len(last.candidates[id]) # Len(last.queryVec)

\* C27 as stated (dimension mismatch in cosine): cosineSim fails with the
\* vectors-not-same-length error whenever its vectors differ in length,
\* whatever the norms, and a Search with a candidate of another length than
\* the query fails and returns no ids.
C27_CosineMismatch ==
    /\ (last.op = "cosineSim" /\ Len(last.vecA) # Len(last.vecB)) =>
            last.res.err = "vectorsNotSameLen"
    /\ (last.op = "Search" /\ Len(last.queryVec) > 0 /\ SomeMismatch) =>
            (last.err = "vectorsNotSameLen" /\ last.ids = <<>>)

\* C27 amended: with vectors of different lengths cosineSim fails with the
\* vectors-not-same-length error when both norms are above EPSILON, and
\* returns -1 without error when a norm is at most EPSILON; a Search whose
\* non-zero query differs in length from a non-zero candidate returns no
\* ids and fails, with that error or, when a candidate is empty, with the
\* empty-vector error.
C27_CosineMismatchNonZero ==
    /\ (last.op = "cosineSim" /\ Len(last.vecA) # Len(last.vecB)) =>
            IF last.normA > 0 /\ last.normB > 0
            THEN last.res.err = "vectorsNotSameLen"
            ELSE last.res = Ok(Real(0 - 1, 1))
    /\ (/\ last.op = "Search"
        /\ SumProducts(last.queryVec, last.queryVec) > 0
        /\ \E id \in DOMAIN last.candidates :
              /\ Len(last.candidates[id]) # Len(last.queryVec)
              /\ SumProducts(last.candidates[id], last.candidates[id]) > 0)
          => /\ last.ids = <<>>
             /\ \/ last.err = "vectorsNotSameLen"
                \/ /\ last.err = "emptyVector"
                   /\ \E id \in DOMAIN last.candidates :
                         last.candidates[id] = <<>>

\* A Search with a candidate of the query's length and a non-zero one of
\* another length has failed.
C27_Witness ==
    /\ last.op = "Search" /\ last.err = "vectorsNotSameLen"
    /\ last.queryVec = <<1, 0>>
    /\ IdX \in DOMAIN last.candidates /\ last.candidates[IdX] = <<0, 1>>
    /\ IdY \in DOMAIN last.candidates /\ last.candidates[IdY] = <<1>>

\* The similarity, as the specification defines it, of the query of the
\* last Search and its candidate id.
SearchSim(id) == SpecCosine(last.queryVec, last.candidates[id])

\* The candidates of the last Search whose similarity is at least its
\* threshold.
SearchPassing ==
    {id \in DOMAIN last.candidates :
        ~RealLess(SearchSim(id), ThresholdReal(last.tn))}

\* C28 (top-k keeps the best): when k > 0 and more than k candidates pass
\* the threshold, a successful Search returns k of them, and no passing id
\* it leaves out has a strictly greater similarity to the query than an id
\* it returns.
C28_TopKBest ==
    (/\ last.op = "Search" /\ last.err = ""
     /\ last.k > 0 /\ Cardinality(SearchPassing) > last.k) =>
        /\ Len(last.ids) = last.k
        /\ Range(last.ids) \subseteq SearchPassing
        /\ \A out \in SearchPassing \ Range(last.ids) :
              \A in \in Range(last.ids) :
                  ~RealLess(SearchSim(in), SearchSim(out))

\* A Search with k = 1 has returned the most similar of three passing
\* candidates of three different similarities.
C28_Witness ==
    /\ last.op = "Search" /\ last.err = "" /\ last.k = 1
    /\ Cardinality(SearchPassing) = 3
    /\ Len(last.ids) = 1
    /\ \A out \in SearchPassing \ Range(last.ids) :
          RealLess(SearchSim(out), SearchSim(last.ids[1]))
    /\ \E a, b \in SearchPassing : RealLess(SearchSim(a), SearchSim(b))
                                       /\ last.ids[1] \notin {a, b}

\* C29 (sketch function): with H hyperplanes of dimension D, Sketch(v)
\* fails with the vectors-not-same-length error when the length of v is not
\* D, and otherwise returns a string of H characters, the i-th being "1"
\* when the dot product of hyperplane i and v is at least 0 and "0" when it
\* is below 0; the result is thus a function of the hyperplanes and v.
C29_SketchFunction ==
    last.op = "Sketch" =>
        LET H == Len(last.Hyperplanes)
            D == Len(last.Hyperplanes[1])
        IN  IF Len(last.embedding) # D
            THEN last.res = Fail("vectorsNotSameLen")
            ELSE /\ last.res.err = ""
                 /\ Len(last.res.val) = H
                 /\ \A i \in 1 .. H :
                       last.res.val[i] =
                           IF SumProducts(last.Hyperplanes[i], last.embedding)
                                  >= 0
                           THEN 49 ELSE 48

\* A Sketch over two hyperplanes has returned "10" for a non-zero vector
\* whose dot product with the first is exactly 0.
C29_Witness ==
    /\ last.op = "Sketch" /\ last.res = Ok(<<49, 48>>)
    /\ SumProducts(last.embedding, last.embedding) > 0
    /\ SumProducts(last.Hyperplanes[1], last.embedding) = 0
    /\ SumProducts(last.Hyperplanes[1], last.Hyperplanes[1]) > 0

\* No element of s occurs in it twice.
NoRepeat(s) == \A i, j \in 1 .. Len(s) : i # j => s[i] # s[j]

C30_FetchedOnce ==
    [][\A t \in DOMAIN calls :
          (/\ calls[t].op = "Get" /\ calls[t].pc = "buckets"
           /\ calls'[t].pc = "buckets") =>
              \A id \in DOMAIN calls[t].data :
                  /\ id \in DOMAIN calls'[t].data
                  /\ calls'[t].data[id] = calls[t].data[id]]_vars

=============================================================================
